---- MODULE Spec2Model ----
(***************************************************************************)
(* Resumable hierarchical pipeline (Pipeline/main.py) driving the          *)
(* attraction/emotion graph accumulator (Network/main.py).                 *)
(*                                                                         *)
(* One operating-system process is one "run": module import loads the      *)
(* persisted graph and emotion catalog, exec_net_build_pipeline loads and  *)
(* reconciles the progress tree, walks the location catalog and finally    *)
(* persists progress, emotions, graph and statistics.  The disk survives   *)
(* between runs; everything else is rebuilt at process start.              *)
(***************************************************************************)
EXTENDS Integers, Sequences, FiniteSets, TLC

\* ------------------------------------------------------------------ bounds
\* Number of processes (runs) started one after the other.
MaxRuns == 2
\* Number of SIGINTs delivered to one process.
MaxSigints == 2
\* Number of processes started with --reset.
MaxResets == 1
\* Number of add_edge calls made on the accumulator alone.
MaxCalls == 3
\* Largest sentiment score, in hundredths, and largest rating, in stars,
\* handed to calculate_adequacy_weight alone; both lie outside the ranges
\* the function documents, [-1, 1] and [1, 5].
MaxScore == 150
MaxRating == 7
\* Largest max_retries handed to generate_with_retry alone, next to its
\* default.
MaxRetryBudget == 3
\* Number of add_edge calls made one after another, call by call.
MaxRecorded == 3
\* Number of calls of generate_with_retry that follow the first one.
MaxFurtherCalls == 1
\* generate_with_retry: base_delay: float = 1.0, in hundredths of a second
BaseDelay == 100
\* random.uniform(0, 0.25), the upper end in hundredths of a second
MaxJitter == 25
\* generate_with_retry: max_retries: int = 12
DefaultMaxRetries == 12
\* Number of calls of getNearbyAttractions made one after another.
MaxLookups == 2
\* Number of calls of classify_adjective_to_emotions_gemini alone.
MaxClassified == 3
\* Number of SIGINTs delivered while getNearbyAttractions is exercised.
MaxPoolSigints == 3
\* PlacesAPI: MAX_THREADS = 4
MAX_THREADS == 4
\* PlacesAPI: the number of entries of Considered_Place_Types_Filters
PlaceTypeFilters == 6

\* ------------------------------------------------------- external data
\* Which location catalog get_places returns; it is the same in every run
\* unless the places files are rebuilt between two runs.
VARIABLE catalog

\* A catalog of several continents, countries and cities.
FullPlaces ==
  << [name |-> "EU",
      countries |-> << [name |-> "FR", cities |-> << [name |-> "Paris"] >>],
                       [name |-> "IT", cities |-> << [name |-> "Milan"],
                                                     [name |-> "Rome"] >>] >>],
     [name |-> "AS",
      countries |-> << [name |-> "JP", cities |-> << [name |-> "Tokyo"] >>] >>] >>

\* A catalog built from older population data, and the one built from
\* newer data: it has a country more (ES, listed before IT), a city more in
\* each of the old countries (Milan, listed before Rome; Lagos) and a
\* continent more (OC).  No attraction is found near Vigo, Faro, Lagos and
\* Perth.
ShortPlaces ==
  << [name |-> "EU",
      countries |-> << [name |-> "IT", cities |-> << [name |-> "Rome"] >>],
                       [name |-> "PT", cities |-> << [name |-> "Faro"] >>] >>] >>
GrownPlaces ==
  << [name |-> "EU",
      countries |-> << [name |-> "ES", cities |-> << [name |-> "Vigo"] >>],
                       [name |-> "IT", cities |-> << [name |-> "Milan"],
                                                     [name |-> "Rome"] >>],
                       [name |-> "PT", cities |-> << [name |-> "Faro"],
                                                     [name |-> "Lagos"] >>] >>],
     [name |-> "OC",
      countries |-> << [name |-> "AU", cities |-> << [name |-> "Perth"] >>] >>] >>

\* A catalog of one continent, one country and one city.
SinglePlaces ==
  << [name |-> "SA",
      countries |-> << [name |-> "BR", cities |-> << [name |-> "Rio"] >>] >>] >>

\* A catalog of two neighbouring cities.
TwinPlaces ==
  << [name |-> "NA",
      countries |-> << [name |-> "US",
                        cities |-> << [name |-> "Minneapolis"],
                                      [name |-> "Saint Paul"] >>] >>] >>

\* places.get_places(): the location catalog, continent -> country -> city.
Places ==
  IF catalog = "single" THEN SinglePlaces
  ELSE IF catalog = "twin" THEN TwinPlaces
  ELSE IF catalog = "short" THEN ShortPlaces
  ELSE IF catalog = "grown" THEN GrownPlaces
  ELSE FullPlaces

\* places_api.getNearbyAttractions(city): cached per location, so the same
\* list is returned in every run.
getNearbyAttractions(city) ==
  CASE city = "Paris" -> << [id |-> "p1", name |-> "Louvre", rating |-> 5] >>
    [] city = "Rome"  -> << [id |-> "q1", name |-> "Forum", rating |-> 4],
                            [id |-> "q2", name |-> "Gate", rating |-> 3] >>
    [] city = "Milan" -> << [id |-> "m1", name |-> "Duomo", rating |-> 4] >>
    [] city = "Tokyo" -> << [id |-> "t1", name |-> "Tower", rating |-> 4] >>
    [] city = "Rio"   -> << [id |-> "w1", name |-> "Cristo", rating |-> 5] >>
    \* the bridge lies within the search radius of both cities
    [] city = "Minneapolis" -> << [id |-> "s1", name |-> "Bridge", rating |-> 4] >>
    [] city = "Saint Paul"  -> << [id |-> "s2", name |-> "Capitol", rating |-> 4],
                                  [id |-> "s1", name |-> "Bridge", rating |-> 4] >>
    [] OTHER -> << >>

\* scraper.scrape_google_maps(attraction): the reviews of an attraction, each
\* with its sentences as the NLP collaborators see them: the VADER compound
\* score in hundredths and the adjectives of the sentence.
scrape_google_maps(aid) ==
  CASE aid = "p1" ->
         << [review_id |-> "r1", rating |-> 5, review_date |-> "d1",
             sentences |-> << [compound |-> 80, adjectives |-> << "Great", "old" >>] >>],
            [review_id |-> "r2", rating |-> 1, review_date |-> "d2",
             sentences |-> << [compound |-> -60, adjectives |-> << "great" >>] >>] >>
    [] aid = "q1" ->
         << [review_id |-> "r3", rating |-> 4, review_date |-> "d3",
             sentences |-> << [compound |-> 50, adjectives |-> << "old" >>] >>] >>
    [] aid = "q2" -> << >>
    [] aid = "m1" ->
         << [review_id |-> "r4", rating |-> 2, review_date |-> "d4",
             sentences |-> << [compound |-> 0, adjectives |-> << >>] >>] >>
    [] aid = "t1" ->
         << [review_id |-> "r5", rating |-> 3, review_date |-> "d5",
             sentences |-> << [compound |-> 90, adjectives |-> << "calm" >>] >>] >>
    [] aid = "w1" ->
         << [review_id |-> "r6", rating |-> 5, review_date |-> "d6",
             sentences |-> << [compound |-> 80, adjectives |-> << "wonderful" >>] >>] >>
    [] aid = "s1" ->
         << [review_id |-> "r7", rating |-> 4, review_date |-> "d7",
             sentences |-> << [compound |-> 70, adjectives |-> << "wide" >>] >>] >>
    [] aid = "s2" ->
         << [review_id |-> "r8", rating |-> 2, review_date |-> "d8",
             sentences |-> << [compound |-> -40, adjectives |-> << "cold" >>] >>] >>
    [] OTHER -> << >>

\* Variant: names are taken as they are written.
LowerNot(s) == s

\* str.lower() on the adjectives that occur.
Lower(s) == IF s = "Great" THEN "great" ELSE s

\* response.text of the model for a sanitized adjective; the reply may carry
\* trailing white space.
GeminiText(adj) ==
  CASE adj = "great" -> "Joy "
    [] adj = "old"   -> "Nostalgia"
    [] adj = "calm"  -> "Peace"
    [] adj = "wonderful" -> "Joy"
    [] OTHER -> "Surprise"

\* str.strip() on the replies and the adjectives that occur.
Strip(s) ==
  CASE s = "Joy "   -> "Joy"
    [] s = "Great " -> "Great"
    [] OTHER -> s

\* The (sentence, adjective) pairs of a review in the order of the two nested
\* loops over sentences and adjectives.
RECURSIVE Observations(_)
Observations(sentences) ==
  IF sentences = << >> THEN << >>
  ELSE LET s == Head(sentences)
       IN  [i \in 1..Len(s.adjectives) |->
              [adjective |-> s.adjectives[i], compound |-> s.compound]]
           \o Observations(Tail(sentences))

\* ------------------------------------------------------- progress tree
DONE == "done"
TODO == "todo"

\* next((c for c in seq if c.name == name), None): position of the first
\* match, 0 for None.
IndexOfName(seq, name) ==
  IF \E i \in 1..Len(seq) : seq[i].name = name
  THEN CHOOSE i \in 1..Len(seq) :
         seq[i].name = name /\ \A j \in 1..(i - 1) : seq[j].name # name
  ELSE 0

\* Variant: only the first element is looked at.
IndexOfIdFirstOnly(seq, id) ==
  IF Len(seq) > 0 /\ seq[1].id = id THEN 1 ELSE 0

\* next((a for a in seq if a.id == id), None)
IndexOfId(seq, id) ==
  IF \E i \in 1..Len(seq) : seq[i].id = id
  THEN CHOOSE i \in 1..Len(seq) :
         seq[i].id = id /\ \A j \in 1..(i - 1) : seq[j].id # id
  ELSE 0

\* get_pipeline_progress, else branch: the tree synthesized from the catalog.
SynthesizedProgress ==
  [c \in 1..Len(Places) |->
     [name |-> Places[c].name, progress |-> TODO,
      countries |->
        [k \in 1..Len(Places[c].countries) |->
           [name |-> Places[c].countries[k].name, progress |-> TODO,
            cities |->
              [t \in 1..Len(Places[c].countries[k].cities) |->
                 [name |-> Places[c].countries[k].cities[t].name,
                  progress |-> TODO, attractions |-> << >>]]]]]]

\* mark_empty_attractions on one city / country / continent: an attraction
\* with no reviews is re-opened, and so is everything above it.
HasEmptyAttraction(city) ==
  \E a \in 1..Len(city.attractions) : Len(city.attractions[a].reviews) = 0

MarkCity(city) ==
  [city EXCEPT
     !.progress = IF HasEmptyAttraction(city) THEN TODO ELSE @,
     !.attractions =
        [a \in 1..Len(@) |->
           IF Len(@[a].reviews) = 0 THEN [@[a] EXCEPT !.progress = TODO]
           ELSE @[a]]]

MarkCountry(country) ==
  [country EXCEPT
     !.progress = IF \E t \in 1..Len(country.cities) :
                       HasEmptyAttraction(country.cities[t])
                  THEN TODO ELSE @,
     !.cities = [t \in 1..Len(@) |-> MarkCity(@[t])]]

MarkContinent(continent) ==
  [continent EXCEPT
     !.progress = IF \E k \in 1..Len(continent.countries) :
                       \E t \in 1..Len(continent.countries[k].cities) :
                          HasEmptyAttraction(continent.countries[k].cities[t])
                  THEN TODO ELSE @,
     !.countries = [k \in 1..Len(@) |-> MarkCountry(@[k])]]

\* Variant: the cascade stops below the continent.
MarkEmptyNoContinent(t) ==
  [c \in 1..Len(t) |->
     [t[c] EXCEPT !.countries = [k \in 1..Len(@) |-> MarkCountry(@[k])]]]

\* Variant: country and continent are re-opened from the flags their
\* children had before this pass.
MarkEmptyStaleCascade(t) ==
  [c \in 1..Len(t) |->
     [t[c] EXCEPT
        !.progress = IF \E k \in 1..Len(t[c].countries) :
                          t[c].countries[k].progress = TODO
                     THEN TODO ELSE @,
        !.countries =
           [k \in 1..Len(@) |->
              [@[k] EXCEPT
                 !.progress = IF \E ct \in 1..Len(t[c].countries[k].cities) :
                                   t[c].countries[k].cities[ct].progress = TODO
                              THEN TODO ELSE @,
                 !.cities = [ct \in 1..Len(@) |-> MarkCity(@[ct])]]]]]

mark_empty_attractions(t) == [c \in 1..Len(t) |-> MarkContinent(t[c])]

\* ------------------------------------------------------- graph accumulator
EmptyGraph == [nodes |-> << >>, edges |-> << >>]

Max2(a, b) == IF a >= b THEN a ELSE b
Min2(a, b) == IF a <= b THEN a ELSE b

\* Variant: the fraction is cut off.
RoundDown(h) == h \div 100

\* round() on a non-negative value given in hundredths: to the nearest
\* integer, a tie to the even one.
RoundHalfEven(h) ==
  LET q == h \div 100
      r == h % 100
  IN  IF r < 50 THEN q
      ELSE IF r > 50 THEN q + 1
      ELSE IF q % 2 = 0 THEN q ELSE q + 1

\* Variant: neither the arguments nor the result are clamped.
AdequacyUnclamped(sentiment_score, user_rating) ==
  RoundHalfEven(300 + sentiment_score * (user_rating - 3))

\* Variant: the polarity of the rating enters with the opposite sign.
AdequacyOpposed(sentiment_score, user_rating) ==
  LET score == Max2(-100, Min2(100, sentiment_score))
      rating == Max2(1, Min2(5, user_rating))
  IN  RoundHalfEven(Max2(100, Min2(500, 300 - score * (rating - 3))))

\* calculate_adequacy_weight; the sentiment score is in hundredths, the
\* rating a whole number of stars.
calculate_adequacy_weight(sentiment_score, user_rating) ==
  LET score == Max2(-100, Min2(100, sentiment_score))
      rating == Max2(1, Min2(5, user_rating))
      \* 3.0 + 2.0 * (score * (rating - 3.0) / 2.0), in hundredths
      adequacy == 300 + score * (rating - 3)
  IN  RoundHalfEven(Max2(100, Min2(500, adequacy)))

\* Variant: no node is ever found, so add_node is always called.
HasNodeNever(g, n) == FALSE

has_node(g, n) == n \in DOMAIN g.nodes

\* Variant: no edge is ever found.
HasEdgeNever(g, u, v) == FALSE

\* Variant: the edge is put on the first node alone.
EdgeKeyLoop(g, u, v) == <<u, u>>

\* nx.Graph is undirected: an edge is found under either orientation.
EdgeKey(g, u, v) == IF <<v, u>> \in DOMAIN g.edges THEN <<v, u>> ELSE <<u, v>>
has_edge(g, u, v) == EdgeKey(g, u, v) \in DOMAIN g.edges

\* Variant: emotions are numbered from zero.
MintedIdFromZero(dict, emotion_type) ==
  emotion_type \o "_" \o ToString(Cardinality(DOMAIN dict))

\* Line 105: the id of a new emotion.
MintedId(dict, emotion_type) ==
  emotion_type \o "_" \o ToString(Cardinality(DOMAIN dict) + 1)

\* The emotion add_edge works with: the catalog entry of the lowercase name,
\* or a newly minted one.
EmotionFor(dict, emotion_name, emotion_type, associated_emotion) ==
  IF Lower(emotion_name) \in DOMAIN dict THEN dict[Lower(emotion_name)]
  ELSE [id |-> MintedId(dict, emotion_type),
        name |-> Lower(emotion_name),
        type |-> emotion_type,
        associated_emotion |-> associated_emotion]

\* add_edge, lines 102-110: the emotion catalog after the call.
AddEdgeEmotions(dict, emotion_name, emotion_type, associated_emotion) ==
  LET e == EmotionFor(dict, emotion_name, emotion_type, associated_emotion)
  IN  IF Lower(emotion_name) \in DOMAIN dict THEN dict
      ELSE (e.name :> e) @@ dict

\* add_edge, lines 87-100 and 112-134: the graph after the call.
AddEdgeGraph(g, dict, attraction, emotion_name, emotion_type, sentiment_score, review_rating, associated_emotion, review_date, where) ==
  LET e  == EmotionFor(dict, emotion_name, emotion_type, associated_emotion)
      n1 == IF has_node(g, attraction.id) THEN g.nodes
            ELSE (attraction.id :>
                    [type |-> "attraction", name |-> attraction.name,
                     rating |-> attraction.rating, location |-> where])
                 @@ g.nodes
      n2 == IF has_node([g EXCEPT !.nodes = n1], e.id) THEN n1
            ELSE (e.id :> [type |-> e.type, name |-> e.name,
                           associated_emotion |-> e.associated_emotion])
                 @@ n1
      edge_weight == calculate_adequacy_weight(sentiment_score, review_rating)
      key == EdgeKey(g, attraction.id, e.id)
  IN  [nodes |-> n2,
       edges |->
         IF has_edge(g, attraction.id, e.id)
         THEN [g.edges EXCEPT
                 ![key] = [weight |-> @.weight + edge_weight,
                           count |-> @.count + 1,
                           review_dates |-> Append(@.review_dates, review_date)]]
         ELSE (key :> [weight |-> edge_weight, count |-> 1,
                       review_dates |-> <<review_date>>])
              @@ g.edges]

\* add_edge on an existing edge is three statements (lines 122, 123, 124):
\* an exception raised by a signal handler between two of them leaves the
\* edge with none, the first, or the first two applied.
Preempted == {"none", "weight", "count"}
AddEdgePreempted(g, key, edge_weight, upto) ==
  [g EXCEPT
     !.edges[key] =
        [@ EXCEPT !.weight = IF upto = "none" THEN @ ELSE @ + edge_weight,
                  !.count = IF upto = "count" THEN @ + 1 ELSE @]]

\* save_network_info: the statistics computed from the graph.
NetworkInfo(g) ==
  [num_nodes |-> Cardinality(DOMAIN g.nodes),
   num_edges |-> Cardinality(DOMAIN g.edges)]

\* ------------------------------------------------------- emotion classifier
\* classify_adjective_to_emotions_gemini: the value returned, and the cache
\* after a call that succeeded.
ClassifyResult(cache, adjective) ==
  IF Lower(adjective) \in DOMAIN cache THEN cache[Lower(adjective)]
  ELSE GeminiText(Lower(adjective))

ClassifyCache(cache, adjective) ==
  IF Lower(adjective) \in DOMAIN cache THEN cache
  ELSE (Lower(adjective) :> Strip(GeminiText(Lower(adjective)))) @@ cache

\* ------------------------------------------------------- persisted files
\* A file is absent, holds a complete document ("ok"), or was left behind by a
\* writer that died after open(path, 'w'): truncated to nothing ("empty") or
\* holding the beginning of a document ("partial").
NoFile == [st |-> "absent", data |-> << >>]
FileOf(d) == [st |-> "ok", data |-> d]
TornFile(how) == [st |-> how, data |-> << >>]

\* os.path.exists(p) and os.path.getsize(p) > 0
ExistsNonEmpty(f) == f.st \in {"ok", "partial"}
\* json.load / nx.read_gml succeed on a complete document only.
Readable(f) == f.st = "ok"

\* save_emotions writes emotions_dict.values(); the import rebuilds the
\* dictionary keyed by name.lower().
EmotionsToList(dict) == {dict[k] : k \in DOMAIN dict}
EmotionsFromList(list) ==
  [k \in {Lower(e.name) : e \in list} |->
     CHOOSE e \in list : Lower(e.name) = k]

VARIABLES
  \* the disk
  diskProgress,      \* pipeline_progress.json
  diskGraph,         \* graph.gml
  diskEmotions,      \* emotions.json
  diskCache,         \* cached_results.json
  diskInfo,          \* network_info.json
  \* the running process
  pc,                \* where the process is; "off" when there is none
  idx,               \* loop positions of the walk
  pipeline_progress, \* the progress tree
  AttractionSentimentNet,
  emotions_dict,
  adjective_to_sentiment_map,
  interrupted,
  interrupted_count,
  \* what an observer of the process sees
  outcome,           \* how the walk of the current/last process ended
  exit_code,         \* exit status of the last process, -1 while it runs
  writes,            \* files written by the current/last process, in order
  runs,              \* processes started so far
  ever_forced,       \* some process so far was ended by a second SIGINT
  caches,            \* which collaborator caches exist on disk
  resets,            \* processes started with --reset so far
  \* the functions exercised on their own
  weight_call,       \* a call of calculate_adequacy_weight
  repeated,          \* an add_edge call that is repeated, and its tally
  retry,             \* a call of generate_with_retry
  recorded,          \* the add_edge call made last, and how many were made
  pool,              \* a call of getNearbyAttractions and its worker threads
  classify           \* a call of classify_adjective_to_emotions_gemini

disk == <<diskProgress, diskGraph, diskEmotions, diskCache, diskInfo>>
memory == <<pipeline_progress, AttractionSentimentNet, emotions_dict,
            adjective_to_sentiment_map>>
vars == <<diskProgress, diskGraph, diskEmotions, diskCache, diskInfo, pc, idx,
          pipeline_progress, AttractionSentimentNet, emotions_dict,
          adjective_to_sentiment_map, interrupted, interrupted_count, outcome,
          exit_code, writes, runs, ever_forced, caches, resets, catalog,
          weight_call, repeated, retry, recorded, pool, classify>>

\* The two collaborators exercised on their own.
lookups == <<pool, classify>>

\* What the pipeline never touches.
aux == <<catalog, weight_call, repeated, retry, recorded, pool, classify>>

NoIdx == [ci |-> 0, ki |-> 0, ti |-> 0, ai |-> 0, ri |-> 0, oi |-> 0]

WalkPcs == {"continent", "country", "city", "attraction", "review", "obs"}
FinPcs == {"fin_progress", "fin_cache", "fin_emotions", "fin_graph", "fin_info"}

\* No collaborator cache exists yet.
NoCaches == {}

\* The functions exercised on their own are not in use.
NoWeightCall == [sentiment_score |-> 0, user_rating |-> 0, called |-> FALSE,
                 adequacy_weight |-> 0]
NoRepeated == [call |-> << >>, times |-> 0, others |-> 0, total |-> 0]
NoRetry == [max_retries |-> 0, attempt |-> 0, invocations |-> 0, sleeps |-> 0,
            last_error |-> "none", result |-> "none", delay |-> 0,
            slept |-> 0, calls |-> 0, earlier |-> 0]
NoRecorded == [call |-> << >>, calls |-> 0]
NoPool == [at |-> "idle", threads |-> 0, idle_semaphore |-> 0, shutdown |-> FALSE,
           submitted |-> 0, taken |-> 0, finished |-> {}, raised |-> {},
           collected |-> 0, responses |-> 0, interrupted_count |-> 0,
           lookups |-> 0, mutations |-> 0, most |-> 0]
NoClassify == [adjective |-> "", at |-> "idle", attempt |-> 0, llm_calls |-> 0,
               result |-> "none", hit |-> FALSE, calls |-> 0, first |-> << >>]

\* Nothing is on disk and no process runs.
NothingYet ==
  /\ diskProgress = NoFile
  /\ diskGraph = NoFile
  /\ diskEmotions = NoFile
  /\ diskCache = NoFile
  /\ diskInfo = NoFile
  /\ pc = "off"
  /\ idx = NoIdx
  /\ pipeline_progress = << >>
  /\ AttractionSentimentNet = EmptyGraph
  /\ emotions_dict = << >>
  /\ adjective_to_sentiment_map = << >>
  /\ interrupted = FALSE
  /\ interrupted_count = 0
  /\ outcome = "none"
  /\ exit_code = -1
  /\ writes = << >>
  /\ runs = 0
  /\ ever_forced = FALSE
  /\ caches = NoCaches
  /\ resets = 0

Init ==
  /\ NothingYet
  /\ catalog = "full"
  /\ recorded = NoRecorded
  /\ pool = NoPool
  /\ classify = NoClassify
  /\ weight_call = NoWeightCall
  /\ repeated = NoRepeated
  /\ retry = NoRetry

\* The process is gone: its memory with it.
ProcessEnds(how, code) ==
  /\ pc' = "off"
  /\ idx' = NoIdx
  /\ pipeline_progress' = << >>
  /\ AttractionSentimentNet' = EmptyGraph
  /\ emotions_dict' = << >>
  /\ adjective_to_sentiment_map' = << >>
  /\ outcome' = how
  /\ exit_code' = code

\* ------------------------------------------------------- process start
\* python main.py: the imports run the module-level code of Sentiments and
\* Network, which load the classifier cache, the graph and the emotion
\* catalog; Pipeline installs the SIGINT handler.
ImportWithin(most) ==
  /\ pc = "off"
  /\ runs < most
  /\ runs' = runs + 1
  /\ UNCHANGED <<ever_forced, caches, resets, aux>>
  /\ interrupted' = FALSE
  /\ interrupted_count' = 0
  /\ writes' = << >>
  /\ UNCHANGED disk
  /\ IF \/ (ExistsNonEmpty(diskCache) /\ ~Readable(diskCache))
        \/ (ExistsNonEmpty(diskGraph) /\ ~Readable(diskGraph))
        \/ (ExistsNonEmpty(diskEmotions) /\ ~Readable(diskEmotions))
     THEN ProcessEnds("crashed", 1)
     ELSE /\ pc' = "imported"
          /\ idx' = NoIdx
          /\ pipeline_progress' = << >>
          /\ adjective_to_sentiment_map' =
               IF ExistsNonEmpty(diskCache) THEN diskCache.data ELSE << >>
          /\ AttractionSentimentNet' =
               IF ExistsNonEmpty(diskGraph) THEN diskGraph.data ELSE EmptyGraph
          /\ emotions_dict' =
               IF ExistsNonEmpty(diskEmotions)
               THEN EmotionsFromList(diskEmotions.data) ELSE << >>
          /\ outcome' = "running"
          /\ exit_code' = -1

Import == ImportWithin(MaxRuns)

\* get_pipeline_progress: the persisted tree when the file exists, else the
\* synthesized one.  (Called only when the file can be parsed.)
get_pipeline_progress ==
  IF diskProgress.st # "absent" THEN diskProgress.data ELSE SynthesizedProgress

\* exec_net_build_pipeline, lines 207-210.  get_places leaves its result in
\* its cache; json.load on a file that is not a complete document raises
\* before the try block is entered.
Reconcile ==
  /\ pc = "imported"
  /\ UNCHANGED <<disk, interrupted, interrupted_count, writes, runs, ever_forced>>
  /\ caches' = caches \cup {"places"}
  /\ UNCHANGED <<resets, aux>>
  /\ IF diskProgress.st # "absent" /\ ~Readable(diskProgress)
     THEN ProcessEnds("crashed", 1)
     ELSE /\ pipeline_progress' = mark_empty_attractions(get_pipeline_progress)
          /\ pc' = "reconciled"
          /\ UNCHANGED <<idx, outcome, exit_code, AttractionSentimentNet,
                         emotions_dict, adjective_to_sentiment_map>>

\* Line 212: the try block is entered and the walk starts at the first
\* continent.
EnterTry ==
  /\ pc = "reconciled"
  /\ pc' = "continent"
  /\ idx' = [NoIdx EXCEPT !.ci = 1]
  /\ UNCHANGED <<disk, memory, interrupted, interrupted_count, outcome,
                 exit_code, writes, runs, ever_forced, caches, resets, aux>>

\* ------------------------------------------------------- the walk
\* The catalog entries and the progress nodes the loop variables are bound
\* to.  A progress node is named by its position in its parent's list: lists
\* only grow at the end, so the position of a node never changes.
continent == Places[idx.ci]
PC == IndexOfName(pipeline_progress, continent.name)
country == continent.countries[idx.ki]
PK == IndexOfName(pipeline_progress[PC].countries, country.name)
city == country.cities[idx.ti]
PT == IndexOfName(pipeline_progress[PC].countries[PK].cities, city.name)
city_attractions == getNearbyAttractions(city.name)
attraction == city_attractions[idx.ai]
PA == IndexOfId(pipeline_progress[PC].countries[PK].cities[PT].attractions,
                attraction.id)
reviews == scrape_google_maps(attraction.id)
review == reviews[idx.ri]
PR == IndexOfId(pipeline_progress[PC].countries[PK].cities[PT]
                  .attractions[PA].reviews, review.review_id)
observations == Observations(review.sentences)

\* Variants: a level without its skip rule.
SkipCountryNever(kp) == FALSE
SkipCityNever(tp) == FALSE
SkipReviewNever(rp) == FALSE

\* Variant: an attraction that has a record is skipped.
SkipAttractionRecorded(ap) == TRUE

\* Variant: every city that has a node is skipped.
SkipCityAny(tp) == TRUE

\* The skip rule of each level (lines 218, 229, 245, 288-292, 331).
SkipContinent(cp) == cp.progress = DONE
SkipCountry(kp) == kp.progress = DONE
SkipCity(tp) == tp.progress = DONE
SkipAttraction(ap) == ap.progress = DONE /\ Len(ap.reviews) > 0
SkipReview(rp) == rp.progress = DONE

\* Variant: the graph is saved first and the progress file after it.
FinOrderGraphFirst ==
  <<"fin_cache", "fin_emotions", "fin_graph", "fin_progress", "fin_info">>

\* save_pipeline_progress: the progress file, then save_graph (save_emotions:
\* classifier cache, emotion catalog; then the graph), then save_network_info.
FinOrder ==
  <<"fin_progress", "fin_cache", "fin_emotions", "fin_graph", "fin_info">>

\* Where a raised exception or a finished walk continues: the finally block.
Finally(how) ==
  /\ pc' = FinOrder[1]
  /\ idx' = NoIdx
  /\ outcome' = how

\* Lines 213-222 and 388.
WalkContinent ==
  /\ pc = "continent"
  /\ UNCHANGED <<disk, memory, interrupted, interrupted_count, exit_code,
                 writes, runs, ever_forced, caches, resets, aux>>
  /\ IF idx.ci > Len(Places) THEN Finally("completed")
     ELSE IF PC = 0 THEN Finally("error")   \* None has no attribute progress
     ELSE IF SkipContinent(pipeline_progress[PC])
     THEN /\ idx' = [idx EXCEPT !.ci = @ + 1]
          /\ UNCHANGED <<pc, outcome>>
     ELSE /\ pc' = "country"
          /\ idx' = [idx EXCEPT !.ki = 1]
          /\ UNCHANGED outcome

\* Lines 224-238 and 385.
WalkCountry ==
  /\ pc = "country"
  /\ UNCHANGED <<disk, AttractionSentimentNet, emotions_dict,
                 adjective_to_sentiment_map, interrupted, interrupted_count,
                 outcome, exit_code, writes, runs, ever_forced, caches, resets,
                 aux>>
  /\ IF idx.ki > Len(continent.countries)
     THEN /\ pipeline_progress' = [pipeline_progress EXCEPT ![PC].progress = DONE]
          /\ pc' = "continent"
          /\ idx' = [idx EXCEPT !.ci = @ + 1, !.ki = 0]
     ELSE IF PK # 0 /\ SkipCountry(pipeline_progress[PC].countries[PK])
     THEN /\ idx' = [idx EXCEPT !.ki = @ + 1]
          /\ UNCHANGED <<pc, pipeline_progress>>
     ELSE /\ pipeline_progress' =
               IF PK # 0 THEN pipeline_progress
               ELSE [pipeline_progress EXCEPT
                       ![PC].countries =
                          Append(@, [name |-> country.name, progress |-> TODO,
                                     cities |-> << >>])]
          /\ pc' = "city"
          /\ idx' = [idx EXCEPT !.ti = 1]

\* Variant: nothing is written when a country is finished.
CountryCheckpointNone == {}

\* What line 382 writes when a country is finished.
CountryCheckpoint == {"info"}

\* Lines 240-265 and 381-383.
WalkCity ==
  /\ pc = "city"
  /\ UNCHANGED <<diskProgress, diskEmotions, diskCache, AttractionSentimentNet,
                 emotions_dict, adjective_to_sentiment_map, interrupted,
                 interrupted_count, outcome, exit_code, runs, ever_forced,
                 resets, aux>>
  /\ IF idx.ti > Len(country.cities)
     THEN /\ pipeline_progress' =
               [pipeline_progress EXCEPT ![PC].countries[PK].progress = DONE]
          /\ diskInfo' = IF "info" \in CountryCheckpoint
                         THEN FileOf(NetworkInfo(AttractionSentimentNet))
                         ELSE diskInfo
          /\ diskGraph' = IF "graph" \in CountryCheckpoint
                          THEN FileOf(AttractionSentimentNet)
                          ELSE diskGraph
          /\ writes' = writes
                       \o (IF "graph" \in CountryCheckpoint THEN <<"graph">> ELSE << >>)
                       \o (IF "info" \in CountryCheckpoint THEN <<"info">> ELSE << >>)
          /\ pc' = "country"
          /\ idx' = [idx EXCEPT !.ki = @ + 1, !.ti = 0]
          /\ UNCHANGED caches
     ELSE IF PT # 0 /\ SkipCity(pipeline_progress[PC].countries[PK].cities[PT])
     THEN /\ idx' = [idx EXCEPT !.ti = @ + 1]
          /\ UNCHANGED <<pc, pipeline_progress, diskInfo, diskGraph, writes,
                         caches>>
     ELSE /\ pipeline_progress' =
               IF PT # 0 THEN pipeline_progress
               ELSE [pipeline_progress EXCEPT
                       ![PC].countries[PK].cities =
                          Append(@, [name |-> city.name, progress |-> TODO,
                                     attractions |-> << >>])]
          /\ pc' = "attraction"
          /\ idx' = [idx EXCEPT !.ai = 1]
          /\ caches' = caches \cup {"attractions"}   \* line 263
          /\ UNCHANGED <<diskInfo, diskGraph, writes>>

\* Lines 270-315 and 378.
WalkAttraction ==
  /\ pc = "attraction"
  /\ UNCHANGED <<disk, AttractionSentimentNet, emotions_dict,
                 adjective_to_sentiment_map, interrupted, interrupted_count,
                 outcome, exit_code, writes, runs, ever_forced, resets, aux>>
  /\ IF idx.ai > Len(city_attractions)
     THEN /\ pipeline_progress' =
               [pipeline_progress EXCEPT
                  ![PC].countries[PK].cities[PT].progress = DONE]
          /\ pc' = "city"
          /\ idx' = [idx EXCEPT !.ti = @ + 1, !.ai = 0]
          /\ UNCHANGED caches
     ELSE IF PA # 0 /\ SkipAttraction(pipeline_progress[PC].countries[PK]
                                        .cities[PT].attractions[PA])
     THEN /\ idx' = [idx EXCEPT !.ai = @ + 1]
          /\ UNCHANGED <<pc, pipeline_progress, caches>>
     ELSE /\ pipeline_progress' =
               IF PA # 0 THEN pipeline_progress
               ELSE [pipeline_progress EXCEPT
                       ![PC].countries[PK].cities[PT].attractions =
                          Append(@, [id |-> attraction.id,
                                     name |-> attraction.name,
                                     progress |-> TODO, reviews |-> << >>])]
          /\ pc' = "review"
          /\ idx' = [idx EXCEPT !.ri = 1]
          /\ caches' = caches \cup {"reviews"}       \* line 298

\* Variant: the review is left as it is.
MarkReviewDoneNot(t, c, k, ct, a, r) == t

\* Line 368.
MarkReviewDone(t, c, k, ct, a, r) ==
  [t EXCEPT ![c].countries[k].cities[ct].attractions[a].reviews[r].progress = DONE]

\* Variant: a review enters the tree marked done.
NewReviewDone == DONE

\* Lines 325-329: the status a review enters the tree with.
NewReview == TODO

\* Variant: the flag is not looked at.
StopRequestedNever == FALSE

\* Line 375: the flag the SIGINT handler sets.
StopRequested == interrupted

\* Lines 317-342 and 370-376.
WalkReview ==
  /\ pc = "review"
  /\ UNCHANGED <<disk, AttractionSentimentNet, emotions_dict,
                 adjective_to_sentiment_map, interrupted, interrupted_count,
                 exit_code, writes, runs, ever_forced, caches, resets, aux>>
  /\ IF idx.ri > Len(reviews)
     THEN /\ pipeline_progress' =
               [pipeline_progress EXCEPT
                  ![PC].countries[PK].cities[PT].attractions[PA].progress = DONE]
          /\ IF StopRequested
             THEN Finally("interrupted")             \* raise StopIteration
             ELSE /\ pc' = "attraction"
                  /\ idx' = [idx EXCEPT !.ai = @ + 1, !.ri = 0]
                  /\ UNCHANGED outcome
     ELSE IF PR # 0 /\ SkipReview(pipeline_progress[PC].countries[PK].cities[PT]
                                    .attractions[PA].reviews[PR])
     THEN /\ idx' = [idx EXCEPT !.ri = @ + 1]
          /\ UNCHANGED <<pc, pipeline_progress, outcome>>
     ELSE /\ pipeline_progress' =
               IF PR # 0 THEN pipeline_progress
               ELSE [pipeline_progress EXCEPT
                       ![PC].countries[PK].cities[PT].attractions[PA].reviews =
                          Append(@, [id |-> review.review_id, progress |-> NewReview])]
          /\ pc' = "obs"
          /\ idx' = [idx EXCEPT !.oi = 1]
          /\ UNCHANGED outcome

\* Lines 344-368: one adjective of one sentence, or the end of the review.
WalkObservation ==
  /\ pc = "obs"
  /\ UNCHANGED <<disk, interrupted, interrupted_count, outcome, exit_code,
                 writes, runs, ever_forced, caches, resets, aux>>
  /\ IF idx.oi > Len(observations)
     THEN /\ pipeline_progress' = MarkReviewDone(pipeline_progress, PC, PK, PT, PA, PR)
          /\ idx' = [idx EXCEPT !.ri = @ + 1, !.oi = 0]
          /\ pc' = "review"
          /\ UNCHANGED <<AttractionSentimentNet, emotions_dict,
                         adjective_to_sentiment_map>>
     ELSE LET o == observations[idx.oi]
              associated_emotion ==
                ClassifyResult(adjective_to_sentiment_map, o.adjective)
          IN  /\ adjective_to_sentiment_map' =
                   ClassifyCache(adjective_to_sentiment_map, o.adjective)
              /\ AttractionSentimentNet' =
                   AddEdgeGraph(AttractionSentimentNet, emotions_dict, attraction,
                                o.adjective, "adjective", o.compound,
                                review.rating, associated_emotion,
                                review.review_date,
                                [continent |-> continent.name,
                                 country |-> country.name, city |-> city.name])
              /\ emotions_dict' =
                   AddEdgeEmotions(emotions_dict, o.adjective, "adjective",
                                   associated_emotion)
              /\ idx' = [idx EXCEPT !.oi = @ + 1]
              /\ UNCHANGED <<pipeline_progress, pc>>

\* generate_with_retry raises (a fatal error, or the retries are used up)
\* while the arguments of add_edge are evaluated; nothing catches it before
\* the finally block.  The model is called on a cache miss only.
ClassifyError ==
  /\ pc = "obs"
  /\ idx.oi <= Len(observations)
  /\ Lower(observations[idx.oi].adjective) \notin DOMAIN adjective_to_sentiment_map
  /\ Finally("error")
  /\ UNCHANGED <<disk, memory, interrupted, interrupted_count, exit_code,
                 writes, runs, ever_forced, caches, resets, aux>>

\* ------------------------------------------------------- finalization
\* The step after `step` in the finally block; "off" after the last one.
NextFin(step) ==
  LET i == CHOOSE j \in 1..Len(FinOrder) : FinOrder[j] = step
  IN  IF i < Len(FinOrder) THEN FinOrder[i + 1] ELSE "off"

\* The file a finalization step writes.
FinFile(step) ==
  CASE step = "fin_progress" -> "progress"
    [] step = "fin_cache"    -> "cache"
    [] step = "fin_emotions" -> "emotions"
    [] step = "fin_graph"    -> "graph"
    [] OTHER                 -> "info"

\* The disk after `file` is replaced by `content`.
WriteFile(file, content) ==
  /\ diskProgress' = IF file = "progress" THEN content ELSE diskProgress
  /\ diskCache' = IF file = "cache" THEN content ELSE diskCache
  /\ diskEmotions' = IF file = "emotions" THEN content ELSE diskEmotions
  /\ diskGraph' = IF file = "graph" THEN content ELSE diskGraph
  /\ diskInfo' = IF file = "info" THEN content ELSE diskInfo

\* What a finalization step writes into its file.
FinContent(step) ==
  CASE step = "fin_progress" -> FileOf(pipeline_progress)
    [] step = "fin_cache"    -> FileOf(adjective_to_sentiment_map)
    [] step = "fin_emotions" -> FileOf(EmotionsToList(emotions_dict))
    [] step = "fin_graph"    -> FileOf(AttractionSentimentNet)
    [] OTHER                 -> FileOf(NetworkInfo(AttractionSentimentNet))

\* Lines 393-396: after the finally block sys.exit(0) is reached unless an
\* exception (an error, SystemExit) is still propagating.
\* Variant: sys.exit(0) is reached however the walk ended.
ExitCodeZero(how) == 0

ExitCodeAfter(how) == IF how \in {"completed", "interrupted"} THEN 0 ELSE 1

FinStep ==
  /\ pc \in FinPcs
  /\ WriteFile(FinFile(pc), FinContent(pc))
  /\ writes' = Append(writes, FinFile(pc))
  /\ UNCHANGED <<interrupted, interrupted_count, runs, ever_forced, caches,
                 resets, aux>>
  /\ IF NextFin(pc) = "off"
     THEN ProcessEnds(outcome, ExitCodeAfter(outcome))
     ELSE /\ pc' = NextFin(pc)
          /\ UNCHANGED <<idx, memory, outcome, exit_code>>

\* ------------------------------------------------------- asynchronous events
\* A writer that dies inside a finalization step may not have opened the file
\* yet, or leaves it truncated or half written.
Torn == {"untouched", "empty", "partial"}
DiesWriting(how) ==
  IF pc \in FinPcs /\ how # "untouched"
  THEN WriteFile(FinFile(pc), TornFile(how))
  ELSE UNCHANGED disk

\* The observation the walk is about to record meets an edge that exists.
OnExistingEdge ==
  /\ pc = "obs" /\ idx.oi <= Len(observations)
  /\ Lower(observations[idx.oi].adjective) \in DOMAIN emotions_dict
  /\ has_edge(AttractionSentimentNet, attraction.id,
              emotions_dict[Lower(observations[idx.oi].adjective)].id)

\* handle_sigint.  The first signal only sets the flag.  From the second on
\* sys.exit(1) raises SystemExit where the main thread stands: before the try
\* block the process ends; inside it the finally block runs (the exception
\* may have left add_edge between two of its statements); inside the finally
\* block the rest of the saving is abandoned.
Sigint ==
  /\ pc # "off"
  /\ interrupted_count < MaxSigints
  /\ interrupted' = TRUE
  /\ interrupted_count' = interrupted_count + 1
  /\ ever_forced' = (ever_forced \/ interrupted_count + 1 >= 2)
  /\ UNCHANGED <<writes, runs, caches, resets, aux>>
  /\ IF interrupted_count + 1 < 2
     THEN UNCHANGED <<disk, pc, idx, memory, outcome, exit_code>>
     ELSE IF pc \in WalkPcs
     THEN /\ Finally("forced")
          /\ UNCHANGED <<disk, pipeline_progress, emotions_dict, exit_code>>
          /\ IF OnExistingEdge
             THEN LET o == observations[idx.oi]
                      e == emotions_dict[Lower(o.adjective)]
                  IN  \E upto \in Preempted :
                        /\ AttractionSentimentNet' =
                             AddEdgePreempted(
                               AttractionSentimentNet,
                               EdgeKey(AttractionSentimentNet, attraction.id, e.id),
                               calculate_adequacy_weight(o.compound, review.rating),
                               upto)
                        /\ adjective_to_sentiment_map' =
                             IF upto = "none" THEN adjective_to_sentiment_map
                             ELSE ClassifyCache(adjective_to_sentiment_map,
                                                o.adjective)
             ELSE UNCHANGED <<AttractionSentimentNet, adjective_to_sentiment_map>>
     ELSE /\ \E how \in Torn : DiesWriting(how)
          /\ ProcessEnds("forced", 1)

\* The process is killed (SIGKILL, power loss, out of memory).
Kill ==
  /\ pc # "off"
  /\ \E how \in Torn : DiesWriting(how)
  /\ ProcessEnds("killed", 137)
  /\ UNCHANGED <<interrupted, interrupted_count, writes, runs, ever_forced,
                 caches, resets, aux>>

\* ------------------------------------------------------- python main.py --reset
\* The imports run the same module-level code as in a pipeline run.  Then
\* reset_data_and_network removes the catalog cache, the graph, the emotion
\* catalog and the statistics, the progress file and the scraped reviews, and
\* the attraction cache; the classifier cache is kept.  exit(0) follows and
\* exec_net_build_pipeline is not reached.
\* Variant: the progress file is left in place.
RemovedButProgress ==
  {"places", "graph", "emotions", "info", "reviews", "attractions"}

\* What reset_places_data, reset_network_data, reset_pipeline_data and
\* clearCachedAttractions remove.
Removed ==
  {"places", "graph", "emotions", "info", "progress", "reviews", "attractions"}

Reset ==
  /\ pc = "off"
  /\ resets < MaxResets
  /\ resets' = resets + 1
  /\ interrupted' = FALSE
  /\ interrupted_count' = 0
  /\ writes' = << >>
  /\ UNCHANGED <<diskCache, runs, ever_forced, aux>>
  /\ IF \/ (ExistsNonEmpty(diskCache) /\ ~Readable(diskCache))
        \/ (ExistsNonEmpty(diskGraph) /\ ~Readable(diskGraph))
        \/ (ExistsNonEmpty(diskEmotions) /\ ~Readable(diskEmotions))
     THEN /\ ProcessEnds("crashed", 1)
          /\ UNCHANGED <<diskProgress, diskGraph, diskEmotions, diskInfo, caches>>
     ELSE /\ ProcessEnds("reset", 0)
          /\ diskGraph' = IF "graph" \in Removed THEN NoFile ELSE diskGraph
          /\ diskEmotions' = IF "emotions" \in Removed THEN NoFile ELSE diskEmotions
          /\ diskInfo' = IF "info" \in Removed THEN NoFile ELSE diskInfo
          /\ diskProgress' = IF "progress" \in Removed THEN NoFile ELSE diskProgress
          /\ caches' = caches \ Removed

Next ==
  \/ Import
  \/ Reconcile
  \/ EnterTry
  \/ WalkContinent
  \/ WalkCountry
  \/ WalkCity
  \/ WalkAttraction
  \/ WalkReview
  \/ WalkObservation
  \/ ClassifyError
  \/ FinStep
  \/ Sigint
  \/ Kill
  \/ Reset

Spec == Init /\ [][Next]_vars

\* ------------------------------------------------------- add_edge alone
\* Python's None, for an argument that is not given.
None == "None"

\* What only the pipeline works with.
pipelineOnly == <<diskProgress, diskGraph, diskEmotions, diskCache, diskInfo,
                  pc, idx, pipeline_progress, adjective_to_sentiment_map,
                  interrupted, interrupted_count, outcome, exit_code, writes,
                  runs, ever_forced, caches, resets, catalog>>

\* The calls made on the accumulator: two attractions, three spellings of two
\* emotion names, two (score, rating) pairs of different adequacy weight.
Calls ==
  [attraction : {[id |-> "p1", name |-> "Louvre", rating |-> 5],
                 [id |-> "q1", name |-> "Forum", rating |-> 4]},
   emotion_name : {"Great", "great", "old"},
   signal : {[sentiment_score |-> 80, review_rating |-> 5],
             [sentiment_score |-> -60, review_rating |-> 5]}]

\* add_edge(c.attraction, c.emotion_name, 'adjective', score, rating, ...) on
\* the module-level graph and emotion catalog.
add_edge(c) ==
  /\ AttractionSentimentNet' =
       AddEdgeGraph(AttractionSentimentNet, emotions_dict, c.attraction,
                    c.emotion_name, "adjective", c.signal.sentiment_score,
                    c.signal.review_rating, "Joy", "d1",
                    [continent |-> "EU", country |-> "FR", city |-> "Paris"])
  /\ emotions_dict' =
       AddEdgeEmotions(emotions_dict, c.emotion_name, "adjective", "Joy")

\* Two calls address the same attraction and the same emotion of the catalog.
SameEdge(c, d) ==
  c.attraction.id = d.attraction.id /\ Lower(c.emotion_name) = Lower(d.emotion_name)

\* The call under repetition is fixed; graph and catalog start empty.
InitAccumulator ==
  /\ NothingYet
  /\ catalog = "full"
  /\ recorded = NoRecorded
  /\ pool = NoPool
  /\ classify = NoClassify
  /\ weight_call = NoWeightCall
  /\ retry = NoRetry
  /\ repeated \in [call : Calls, times : {0}, others : {0}, total : {0}]

\* The call under repetition is made once more.
RecordRepeated ==
  /\ repeated.total < MaxCalls
  /\ add_edge(repeated.call)
  /\ repeated' = [repeated EXCEPT !.times = @ + 1, !.total = @ + 1]
  /\ UNCHANGED <<pipelineOnly, lookups, weight_call, retry, recorded>>

\* Some other call is made.
RecordOther ==
  /\ repeated.total < MaxCalls
  /\ \E c \in Calls \ {repeated.call} :
       /\ add_edge(c)
       /\ repeated' = [repeated EXCEPT
                         !.others = IF SameEdge(c, repeated.call) THEN @ + 1 ELSE @,
                         !.total = @ + 1]
  /\ UNCHANGED <<pipelineOnly, lookups, weight_call, retry, recorded>>

NextAccumulator == RecordRepeated \/ RecordOther

SpecAccumulator == InitAccumulator /\ [][NextAccumulator]_vars

\* ------------------------------------------------------- calculate_adequacy_weight alone
\* The arguments: scores in hundredths and ratings in whole stars, inside and
\* outside the documented ranges.
Scores == (-MaxScore)..MaxScore
Ratings == (-1)..MaxRating

InitWeight ==
  /\ NothingYet
  /\ catalog = "full"
  /\ recorded = NoRecorded
  /\ pool = NoPool
  /\ classify = NoClassify
  /\ repeated = NoRepeated
  /\ retry = NoRetry
  /\ weight_call \in [sentiment_score : Scores, user_rating : Ratings,
                       called : {FALSE}, adequacy_weight : {0}]

\* The function is called with the arguments drawn and returns.
CallWeight ==
  /\ ~weight_call.called
  /\ weight_call' =
       [weight_call EXCEPT
          !.called = TRUE,
          !.adequacy_weight =
             calculate_adequacy_weight(weight_call.sentiment_score,
                                       weight_call.user_rating)]
  /\ UNCHANGED <<pipelineOnly, lookups, AttractionSentimentNet, emotions_dict,
                 repeated, retry, recorded, lookups>>

SpecWeight == InitWeight /\ [][CallWeight]_vars

\* ------------------------------------------------------- generate_with_retry alone
\* How one ai_model.generate_content(prompt) can end: it returns, or raises
\* a google.api_core exception, a grpc.RpcError with a status code, or
\* something else.
AttemptOutcomes ==
  {"ok",
   "gax.ResourceExhausted", "gax.TooManyRequests", "gax.ServiceUnavailable",
   "gax.DeadlineExceeded", "gax.InternalServerError", "gax.PermissionDenied",
   "grpc.RESOURCE_EXHAUSTED", "grpc.UNAVAILABLE", "grpc.DEADLINE_EXCEEDED",
   "grpc.INTERNAL", "grpc.PERMISSION_DENIED",
   "ValueError"}

\* Variant: every gRPC status code is retried.
RetryableStatusCodesAll ==
  {"grpc.RESOURCE_EXHAUSTED", "grpc.UNAVAILABLE", "grpc.DEADLINE_EXCEEDED",
   "grpc.INTERNAL", "grpc.PERMISSION_DENIED"}

\* The first except clause.
RetryableApiErrors ==
  {"gax.ResourceExhausted", "gax.TooManyRequests", "gax.ServiceUnavailable",
   "gax.DeadlineExceeded"}

\* The second except clause: a grpc.RpcError whose code() is one of three.
RetryableStatusCodes ==
  {"grpc.RESOURCE_EXHAUSTED", "grpc.UNAVAILABLE", "grpc.DEADLINE_EXCEEDED"}

\* Variant: one attempt more.
AttemptsOneMore(max_retries) == 0..max_retries

\* range(max_retries)
Attempts(max_retries) == 0..(max_retries - 1)

\* Variant: the delay does not grow with the attempt.
BackoffFlat(base_delay, attempt) == base_delay

\* Lines 95 and 107, base_delay * (2**attempt); times are in hundredths of a
\* second.
Backoff(base_delay, attempt) == base_delay * 2^attempt

\* random.uniform(0, 0.25): the two ends and a value between them.
Jitter == {0, 12, MaxJitter}

\* time.sleep(delay) returns when at least `delay` has gone by.
SleepLasts(delay) == {delay, delay + 1}

InitRetry ==
  /\ NothingYet
  /\ catalog = "full"
  /\ recorded = NoRecorded
  /\ pool = NoPool
  /\ classify = NoClassify
  /\ weight_call = NoWeightCall
  /\ repeated = NoRepeated
  /\ retry \in [max_retries : (0..MaxRetryBudget) \cup {DefaultMaxRetries},
                 attempt : {0}, invocations : {0}, sleeps : {0},
                 last_error : {"none"}, result : {"none"}, delay : {0},
                 slept : {0}, calls : {0}, earlier : {0}]

\* generate_with_retry is called: the loop starts, or has nothing to run and
\* line 115 raises.
EnterRetry ==
  /\ retry.result = "none"
  /\ retry' = [retry EXCEPT
                 !.result = IF 0 \in Attempts(retry.max_retries)
                            THEN "calling" ELSE "RuntimeError"]
  /\ UNCHANGED <<pipelineOnly, lookups, AttractionSentimentNet, emotions_dict,
                 weight_call, repeated, recorded>>

\* One pass of the loop body, lines 87-113, and, when the loop is over, the
\* raise of line 115.
Attempt ==
  /\ retry.result = "calling"
  /\ \E o \in AttemptOutcomes, jitter \in Jitter :
     \E lasted \in SleepLasts(Backoff(BaseDelay, retry.attempt) + jitter) :
       retry' =
         IF o = "ok"
         THEN [retry EXCEPT !.invocations = @ + 1, !.last_error = o,
                            !.result = "returned"]
         ELSE IF o \in RetryableApiErrors \cup RetryableStatusCodes
         THEN [retry EXCEPT
                 !.invocations = @ + 1, !.last_error = o,
                 !.delay = Backoff(BaseDelay, retry.attempt) + jitter,
                 !.slept = lasted,
                 !.sleeps = @ + 1,
                 !.attempt = @ + 1,
                 !.result = IF retry.attempt + 1 \in Attempts(retry.max_retries)
                            THEN "calling" ELSE "RuntimeError"]
         ELSE [retry EXCEPT !.invocations = @ + 1, !.last_error = o,
                            !.result = "raised"]
  /\ UNCHANGED <<pipelineOnly, lookups, AttractionSentimentNet, emotions_dict,
                 weight_call, repeated, recorded>>

NextRetry == EnterRetry \/ Attempt

SpecRetry == InitRetry /\ [][NextRetry]_vars

\* ------------------------------------------------------- generate_with_retry, called again
\* The call is over (it returned or raised) and the classifier calls
\* generate_with_retry for the next adjective: the loop variable and the
\* locals are new; `earlier` keeps how often the operation was invoked by
\* the calls before.
CallAgain ==
  /\ retry.result \in {"returned", "raised", "RuntimeError"}
  /\ retry.calls < MaxFurtherCalls
  /\ retry' = [NoRetry EXCEPT
                 !.max_retries = retry.max_retries,
                 !.calls = retry.calls + 1,
                 !.earlier = retry.earlier + retry.invocations]
  /\ UNCHANGED <<pipelineOnly, lookups, AttractionSentimentNet, emotions_dict,
                 weight_call, repeated, recorded>>

NextBackoff == EnterRetry \/ Attempt \/ CallAgain

SpecBackoff == InitRetry /\ [][NextBackoff]_vars

\* ------------------------------------------------------- add_edge, call by call
\* The attractions passed: the Louvre as two fetches of the catalog describe
\* it (same id; display name, rating and location labels differ), and the
\* Forum.
RecordedAttractions ==
  {[place |-> [id |-> "p1", name |-> "Louvre", rating |-> 5],
    where |-> [continent |-> "EU", country |-> "FR", city |-> "Paris"]],
   [place |-> [id |-> "p1", name |-> "Le Louvre", rating |-> 4],
    where |-> [continent |-> "EU", country |-> "FR", city |-> "Lyon"]],
   [place |-> [id |-> "q1", name |-> "Forum", rating |-> 4],
    where |-> [continent |-> "EU", country |-> "IT", city |-> "Rome"]]}

\* The emotions passed: one name in two letter cases, with different type,
\* associated emotion and signal, and a second name, once with a signal
\* outside the documented ranges.
RecordedEmotions ==
  {[emotion_name |-> "Great", emotion_type |-> "adjective",
    associated_emotion |-> "Joy", sentiment_score |-> 80, review_rating |-> 5],
   [emotion_name |-> "great", emotion_type |-> "noun",
    associated_emotion |-> "Anger", sentiment_score |-> -60, review_rating |-> 5],
   [emotion_name |-> "old", emotion_type |-> "adjective",
    associated_emotion |-> "Nostalgia", sentiment_score |-> 50, review_rating |-> 4],
   [emotion_name |-> "old", emotion_type |-> "adjective",
    associated_emotion |-> "Nostalgia", sentiment_score |-> 150, review_rating |-> 7]}

\* The calls made: with a review date, or without (the default, None).
RecordedCalls ==
  [attraction : RecordedAttractions, emotion : RecordedEmotions,
   review_date : {"d1", None}]

\* Graph and emotion catalog start empty (no file to load).
InitRecord ==
  /\ NothingYet
  /\ catalog = "full"
  /\ recorded = NoRecorded
  /\ pool = NoPool
  /\ classify = NoClassify
  /\ weight_call = NoWeightCall
  /\ repeated = NoRepeated
  /\ retry = NoRetry

\* add_edge is called once.
Record ==
  /\ recorded.calls < MaxRecorded
  /\ \E c \in RecordedCalls :
       /\ AttractionSentimentNet' =
            AddEdgeGraph(AttractionSentimentNet, emotions_dict,
                         c.attraction.place, c.emotion.emotion_name,
                         c.emotion.emotion_type, c.emotion.sentiment_score,
                         c.emotion.review_rating, c.emotion.associated_emotion,
                         c.review_date, c.attraction.where)
       /\ emotions_dict' =
            AddEdgeEmotions(emotions_dict, c.emotion.emotion_name,
                            c.emotion.emotion_type, c.emotion.associated_emotion)
       /\ recorded' = [call |-> c, calls |-> recorded.calls + 1]
  /\ UNCHANGED <<pipelineOnly, lookups, weight_call, repeated, retry>>

SpecRecord == InitRecord /\ [][Record]_vars

\* ------------------------------------------------------- a catalog that grows
\* The installation starts with the older catalog.
InitGrowing ==
  /\ NothingYet
  /\ catalog = "short"
  /\ recorded = NoRecorded
  /\ pool = NoPool
  /\ classify = NoClassify
  /\ weight_call = NoWeightCall
  /\ repeated = NoRepeated
  /\ retry = NoRetry

\* Between two processes places.json and places.csv are removed and the
\* population data replaced: get_places of the next process builds the newer
\* catalog (lines 153 and following).
PlacesRebuilt ==
  /\ pc = "off"
  /\ runs > 0
  /\ catalog = "short"
  /\ catalog' = "grown"
  /\ caches' = caches \ {"places"}
  /\ UNCHANGED <<disk, pc, idx, memory, interrupted, interrupted_count, outcome,
                 exit_code, writes, runs, ever_forced, resets, weight_call,
                 repeated, retry, recorded, lookups>>

NextGrowing == Next \/ PlacesRebuilt

SpecGrowing == InitGrowing /\ [][NextGrowing]_vars

\* The same program installed with the catalog of a single city.
InitSingle ==
  /\ NothingYet
  /\ catalog = "single"
  /\ recorded = NoRecorded
  /\ pool = NoPool
  /\ classify = NoClassify
  /\ weight_call = NoWeightCall
  /\ repeated = NoRepeated
  /\ retry = NoRetry

SpecSingle == InitSingle /\ [][Next]_vars

\* ------------------------------------------------------- two neighbouring cities
\* The same program installed with the catalog of two neighbouring cities,
\* and started once more often.
InitTwin ==
  /\ NothingYet
  /\ catalog = "twin"
  /\ recorded = NoRecorded
  /\ pool = NoPool
  /\ classify = NoClassify
  /\ weight_call = NoWeightCall
  /\ repeated = NoRepeated
  /\ retry = NoRetry

ImportOnceMore == ImportWithin(MaxRuns + 1)

NextTwin ==
  \/ ImportOnceMore
  \/ Reconcile
  \/ EnterTry
  \/ WalkContinent
  \/ WalkCountry
  \/ WalkCity
  \/ WalkAttraction
  \/ WalkReview
  \/ WalkObservation
  \/ ClassifyError
  \/ FinStep
  \/ Sigint
  \/ Kill
  \/ Reset

SpecTwin == InitTwin /\ [][NextTwin]_vars

\* ------------------------------------------------------- the classifier alone
\* classify_adjective_to_emotions_gemini is called with one adjective after
\* the other on the module-level cache, which starts empty (no file).
\* classify.first keeps, for each key of the cache, the value returned by
\* the call that stored it.
ClassifiedAdjectives == {"Great", "great", "Great ", "old"}

\* Texts the model replies with; the classes are its to choose.
Replies == {"Joy ", "Joy", "Anger"}

\* Line 119: adjective.strip().lower()
Sanitized(adjective) == Lower(Strip(adjective))

InitClassify ==
  /\ NothingYet
  /\ catalog = "full"
  /\ recorded = NoRecorded
  /\ pool = NoPool
  /\ classify = NoClassify
  /\ weight_call = NoWeightCall
  /\ repeated = NoRepeated
  /\ retry = NoRetry

classifyNever == <<diskProgress, diskGraph, diskEmotions, diskCache, diskInfo,
                   pc, idx, pipeline_progress, AttractionSentimentNet,
                   emotions_dict, interrupted, interrupted_count, outcome,
                   exit_code, writes, runs, ever_forced, caches, resets,
                   catalog, pool, weight_call, repeated, retry, recorded>>

\* The function is entered: a key that is in the cache is answered from it
\* (lines 121-122); for any other generate_with_retry is called (line 160).
EnterClassify ==
  /\ classify.at = "idle"
  /\ classify.calls < MaxClassified
  /\ \E adjective \in ClassifiedAdjectives :
       classify' =
         IF Sanitized(adjective) \in DOMAIN adjective_to_sentiment_map
         THEN [classify EXCEPT
                 !.adjective = adjective, !.hit = TRUE, !.calls = @ + 1,
                 !.result = adjective_to_sentiment_map[Sanitized(adjective)]]
         ELSE [classify EXCEPT
                 !.adjective = adjective, !.hit = FALSE, !.at = "calling",
                 !.attempt = 0, !.result = "none"]
  /\ UNCHANGED <<classifyNever, adjective_to_sentiment_map>>

\* Line 164: what is returned after a miss.
Returned(text) == text

\* ai_model.generate_content returns (line 88): the stripped text is stored
\* under the key (line 162) and the text returned (line 164).
ModelReplies ==
  /\ classify.at = "calling"
  /\ \E text \in Replies :
       /\ adjective_to_sentiment_map' =
            (Sanitized(classify.adjective) :> Strip(text)) @@ adjective_to_sentiment_map
       /\ classify' =
            [classify EXCEPT
               !.at = "idle", !.llm_calls = @ + 1, !.calls = @ + 1,
               !.result = Returned(text),
               !.first = (Sanitized(classify.adjective) :> Returned(text)) @@ @]
  /\ UNCHANGED classifyNever

\* ai_model.generate_content raises: a transient error is retried, until
\* max_retries attempts were made (lines 89-111 and 115); any other error
\* is raised at once (line 113).  The exception leaves
\* classify_adjective_to_emotions_gemini at line 160.
ModelFails ==
  /\ classify.at = "calling"
  /\ \E transient \in BOOLEAN :
       classify' =
         IF transient /\ classify.attempt + 1 < DefaultMaxRetries
         THEN [classify EXCEPT !.llm_calls = @ + 1, !.attempt = @ + 1]
         ELSE [classify EXCEPT !.llm_calls = @ + 1, !.at = "idle",
                               !.calls = @ + 1, !.result = "raised"]
  /\ UNCHANGED <<classifyNever, adjective_to_sentiment_map>>

NextClassify == EnterClassify \/ ModelReplies \/ ModelFails

SpecClassify == InitClassify /\ [][NextClassify]_vars

\* ------------------------------------------------------- getNearbyAttractions alone
\* The orchestrator thread calls getNearbyAttractions for one city after the
\* other and, after each return, works on the progress tree and the graph
\* (Pipeline/main.py line 270 and following).  pool.at is where the
\* orchestrator thread stands; the futures are numbered in the order of
\* submission and the executor's queue hands them out in that order.
Futures == 1..PlaceTypeFilters

\* Work items taken by a worker thread and not finished yet.
Running == (1..pool.taken) \ pool.finished

\* Work items submitted and not taken yet.
Queued == (pool.taken + 1)..pool.submitted

InitPool ==
  /\ NothingYet
  /\ catalog = "full"
  /\ recorded = NoRecorded
  /\ pool = NoPool
  /\ classify = NoClassify
  /\ weight_call = NoWeightCall
  /\ repeated = NoRepeated
  /\ retry = NoRetry

\* What neither getNearbyAttractions nor the walk of its result works with.
poolNever == <<diskProgress, diskGraph, diskEmotions, diskCache, diskInfo, pc,
               idx, adjective_to_sentiment_map, interrupted, interrupted_count,
               outcome, exit_code, writes, runs, ever_forced, caches, resets,
               catalog, classify, weight_call, repeated, retry, recorded>>
poolOnly == <<poolNever, pipeline_progress, AttractionSentimentNet,
              emotions_dict>>

\* The attraction found and the observation recorded for it after a lookup.
Found == [attraction |-> [id |-> "p1", name |-> "Louvre", rating |-> 5],
          emotion_name |-> "great",
          signal |-> [sentiment_score |-> 80, review_rating |-> 5]]

\* getNearbyAttractions is entered.  With a usable cache file the cached
\* list is returned (lines 191-195); without one an executor is created,
\* which has no thread yet.
EnterLookup ==
  /\ pool.at = "idle"
  /\ pool.lookups < MaxLookups
  /\ \E cached \in BOOLEAN :
       pool' = [pool EXCEPT !.at = IF cached THEN "returned" ELSE "submit",
                            !.lookups = @ + 1,
                            !.threads = 0, !.idle_semaphore = 0,
                            !.shutdown = FALSE, !.submitted = 0, !.taken = 0,
                            !.finished = {}, !.raised = {}, !.collected = 0,
                            !.responses = 0]
  /\ UNCHANGED poolOnly

\* executor.submit (lines 197-200): the work item is queued; a thread is
\* started unless a thread is idle or max_workers threads exist already.
Submit ==
  /\ pool.at = "submit"
  /\ LET started == pool.idle_semaphore = 0 /\ pool.threads < MAX_THREADS
         threads == IF started THEN pool.threads + 1 ELSE pool.threads
     IN pool' = [pool EXCEPT
                   !.submitted = @ + 1,
                   !.idle_semaphore = IF @ > 0 THEN @ - 1 ELSE 0,
                   !.threads = threads,
                   !.most = Max2(@, threads),
                   !.at = IF pool.submitted + 1 = PlaceTypeFilters
                            THEN "collect" ELSE "submit"]
  /\ UNCHANGED poolOnly

\* A worker thread that runs no work item takes the next one of the queue.
WorkerTakes ==
  /\ Queued # {}
  /\ Cardinality(Running) < pool.threads
  /\ pool' = [pool EXCEPT !.taken = @ + 1]
  /\ UNCHANGED poolOnly

\* getNearbyAttractionsFromType of a worker thread returns (lines 152-187) or
\* raises (requests.post without a connection); the thread is idle again.
WorkerFinishes ==
  /\ \E f \in Running, ok \in BOOLEAN :
       pool' = [pool EXCEPT !.finished = @ \cup {f},
                            !.raised = IF ok THEN @ ELSE @ \cup {f},
                            !.idle_semaphore = @ + 1]
  /\ UNCHANGED poolOnly

\* An idle worker thread of an executor that was shut down ends once the
\* queue is empty.
WorkerExits ==
  /\ pool.shutdown
  /\ Queued = {}
  /\ Cardinality(Running) < pool.threads
  /\ pool' = [pool EXCEPT !.threads = @ - 1]
  /\ UNCHANGED poolOnly

\* future.result() of the next future (lines 201-206) blocks until the work
\* item has finished; an exception of the work item is logged.  After the
\* last future the with block is left.
Collect ==
  /\ pool.at = "collect"
  /\ pool.collected + 1 \in pool.finished
  /\ pool' = [pool EXCEPT
                !.collected = @ + 1,
                !.responses = IF pool.collected + 1 \in pool.raised THEN @ ELSE @ + 1,
                !.at = IF pool.collected + 1 = PlaceTypeFilters
                         THEN "exit" ELSE "collect",
                !.shutdown = pool.collected + 1 = PlaceTypeFilters]
  /\ UNCHANGED poolOnly

\* The with block does not wait for its threads.
JoinedAnyway == TRUE

\* Leaving `with ThreadPoolExecutor(...)` (line 196) is shutdown(wait=True):
\* the orchestrator thread joins every thread of the executor.
Joined == pool.threads = 0

\* The with block is left and the list is built, cached and returned (lines
\* 208-223); or the exception that ended the block goes on to the caller.
ExitWith ==
  /\ pool.at \in {"exit", "exit_raising"}
  /\ Joined
  /\ pool' = [pool EXCEPT !.at = IF pool.at = "exit" THEN "returned" ELSE "raised"]
  /\ UNCHANGED poolOnly

\* Back in the pipeline the attractions returned are walked by the thread
\* that called getNearbyAttractions (Pipeline lines 270-368): a node is
\* appended to the attractions of the city at hand, for which
\* pipeline_progress stands here, and an edge is added to the graph.
Mutate ==
  /\ pool.at = "returned"
  /\ pool' = [pool EXCEPT !.at = "idle", !.mutations = @ + 1]
  /\ pipeline_progress' =
       Append(pipeline_progress, [id |-> Found.attraction.id,
                                  name |-> Found.attraction.name,
                                  progress |-> TODO, reviews |-> << >>])
  /\ add_edge(Found)
  /\ UNCHANGED poolNever

\* SIGINT: handle_sigint runs on the orchestrator thread.  The first one
\* sets the flag only; from the second on sys.exit(1) raises SystemExit where
\* that thread stands: inside the with block the block is left raising, which
\* joins the threads first; while it is joining, the join is abandoned.
PoolSigint ==
  /\ pool.at # "raised"
  /\ pool.interrupted_count < MaxPoolSigints
  /\ pool' = [pool EXCEPT
                !.interrupted_count = @ + 1,
                !.shutdown = IF pool.interrupted_count + 1 >= 2 /\ pool.at \in {"submit", "collect"}
                               THEN TRUE ELSE @,
                !.at = IF pool.interrupted_count + 1 < 2 THEN @
                       ELSE IF pool.at \in {"submit", "collect"} THEN "exit_raising"
                       ELSE "raised"]
  /\ UNCHANGED poolOnly

NextPool ==
  \/ EnterLookup
  \/ Submit
  \/ WorkerTakes
  \/ WorkerFinishes
  \/ WorkerExits
  \/ Collect
  \/ ExitWith
  \/ Mutate
  \/ PoolSigint

SpecPool == InitPool /\ [][NextPool]_vars

\* ------------------------------------------------------- reading a tree
\* The review `rid` of attraction `aid`, found by keys along the path of
\* names, is marked done in tree t.
ReviewDoneIn(t, cn, kn, tn, aid, rid) ==
  LET c == IndexOfName(t, cn) IN
  /\ c # 0
  /\ LET k == IndexOfName(t[c].countries, kn) IN
     /\ k # 0
     /\ LET ct == IndexOfName(t[c].countries[k].cities, tn) IN
        /\ ct # 0
        /\ LET as == t[c].countries[k].cities[ct].attractions
               a == IndexOfId(as, aid) IN
           /\ a # 0
           /\ LET r == IndexOfId(as[a].reviews, rid) IN
              r # 0 /\ as[a].reviews[r].progress = DONE

\* The review the walk is working on is marked done in the progress file.
CurrentReviewDoneOnDisk ==
  /\ Readable(diskProgress)
  /\ ReviewDoneIn(diskProgress.data, continent.name, country.name, city.name,
                  attraction.id, review.review_id)

\* The attraction ids and lowercase adjectives of the review source.
AllAttractions == {"p1", "q1", "q2", "m1", "t1"}
AllNames == {"great", "old", "calm"}

\* The (review, observation) pairs of attraction aid that feed the edge to
\* the emotion `name`.
Triples(aid, name) ==
  {<<r, i>> \in (1..Len(scrape_google_maps(aid))) \X (1..2) :
     /\ i <= Len(Observations(scrape_google_maps(aid)[r].sentences))
     /\ Lower(Observations(scrape_google_maps(aid)[r].sentences)[i].adjective) = name}

\* Some node of attraction aid in tree t marks review number r done.
DoneSomewhere(t, aid, r) ==
  \E c \in 1..Len(t) : \E k \in 1..Len(t[c].countries) :
    \E ct \in 1..Len(t[c].countries[k].cities) :
      LET as == t[c].countries[k].cities[ct].attractions IN
      \E a \in 1..Len(as) :
        /\ as[a].id = aid
        /\ \E p \in 1..Len(as[a].reviews) :
             /\ as[a].reviews[p].id = scrape_google_maps(aid)[r].review_id
             /\ as[a].reviews[p].progress = DONE

\* The count of the persisted edge between attraction aid and emotion `name`.
DiskCount(aid, name) ==
  IF ~Readable(diskGraph) THEN 0
  ELSE LET g == diskGraph.data
           keys == {key \in DOMAIN g.edges :
                      key[1] = aid /\ g.nodes[key[2]].name = name}
       IN  IF keys = {} THEN 0 ELSE g.edges[CHOOSE key \in keys : TRUE].count

\* ------------------------------------------------------- claims

\* C1: a review that the persisted progress tree marks done is skipped in
\* every later run: the walk never stands in the sentence/adjective loop of
\* such a review, so add_edge is never called for it again.
C1_DoneReviewSkipped == pc = "obs" => ~CurrentReviewDoneOnDisk

\* C1 witness: a second run has just passed over review r1, which the progress
\* file marks done, and the graph is still the one loaded from disk.
C1_Witness ==
  /\ runs = 2 /\ pc = "review" /\ idx.ri = 2
  /\ Readable(diskProgress) /\ Readable(diskGraph)
  /\ ReviewDoneIn(diskProgress.data, continent.name, country.name, city.name,
                  attraction.id, reviews[1].review_id)
  /\ AttractionSentimentNet = diskGraph.data
  /\ DOMAIN AttractionSentimentNet.edges # {}

\* C2: whatever the stops between the runs (double interrupts left aside), the
\* persisted graph never holds the contribution of one (review, sentence,
\* adjective) triple twice: the count of a persisted edge is at most the
\* number of triples that feed it.
C2_NoTripleTwice ==
  (~ever_forced /\ Readable(diskGraph)) =>
    \A key \in DOMAIN diskGraph.data.edges :
      diskGraph.data.edges[key].count
        <= Cardinality(Triples(key[1], diskGraph.data.nodes[key[2]].name))

\* C3: once a process has received its second SIGINT it writes no file.
C3_NoWriteAfterSecondSigint ==
  [][interrupted_count >= 2 => UNCHANGED disk]_vars

\* C4: a process whose walk ended by completion or by the interrupt flag has
\* run the finalization once, writing the progress tree, then (classifier
\* cache and) emotion catalog, then the graph, then the statistics; whatever
\* it wrote before were the statistics at country ends.
C4_FinalizationOrder ==
  (pc = "off" /\ outcome \in {"completed", "interrupted"}) =>
    LET n == Len(writes) IN
    /\ n >= 5
    /\ SubSeq(writes, n - 4, n) = <<"progress", "cache", "emotions", "graph", "info">>
    /\ \A i \in 1..(n - 5) : writes[i] = "info"

\* C4 witness: a process that received exactly one SIGINT has ended after
\* finalization.
C4_Witness ==
  /\ pc = "off" /\ outcome = "interrupted" /\ interrupted_count = 1
  /\ exit_code = 0 /\ Len(writes) >= 6

\* The step that finishes a country (line 381).
CountryMarked == pc = "city" /\ pc' = "country"

C6_DiskConsistent ==
  (pc = "off" /\ ~ever_forced /\ Readable(diskProgress)) =>
    \A aid \in AllAttractions : \A name \in AllNames :
      Cardinality({tr \in Triples(aid, name) :
                     DoneSomewhere(diskProgress.data, aid, tr[1])})
        <= DiskCount(aid, name)

\* The attractions without reviews of tree t, as paths of positions.
EmptyAttractionPaths(t) ==
  {p \in (1..Len(t)) \X (1..2) \X (1..2) \X (1..2) :
     /\ p[2] <= Len(t[p[1]].countries)
     /\ p[3] <= Len(t[p[1]].countries[p[2]].cities)
     /\ p[4] <= Len(t[p[1]].countries[p[2]].cities[p[3]].attractions)
     /\ Len(t[p[1]].countries[p[2]].cities[p[3]].attractions[p[4]].reviews) = 0}

\* C7: right after reconciliation every attraction without reviews is
\* not-done, and so are its city, country and continent.
C7_EmptyAttractionsReopened ==
  pc = "reconciled" =>
    \A p \in EmptyAttractionPaths(pipeline_progress) :
      LET cn == pipeline_progress[p[1]]
          kn == cn.countries[p[2]]
          tn == kn.cities[p[3]]
      IN  /\ tn.attractions[p[4]].progress = TODO
          /\ tn.progress = TODO
          /\ kn.progress = TODO
          /\ cn.progress = TODO

\* C7 witness: reconciliation has run on a progress file that marks an
\* attraction without reviews, its city, country and continent done.
C7_Witness ==
  /\ pc = "reconciled" /\ Readable(diskProgress)
  /\ \E p \in EmptyAttractionPaths(diskProgress.data) :
       LET cn == diskProgress.data[p[1]]
           kn == cn.countries[p[2]]
           tn == kn.cities[p[3]]
       IN  /\ tn.attractions[p[4]].progress = DONE
           /\ tn.progress = DONE /\ kn.progress = DONE /\ cn.progress = DONE

\* C8: reconciliation is idempotent: the tree it produced is a fixed point
\* of mark_empty_attractions (a second reconcile loads the same file, since
\* reconciliation writes nothing, and marks it again).
C8_ReconcileIdempotent ==
  pc = "reconciled" =>
    mark_empty_attractions(pipeline_progress) = pipeline_progress

\* C8 witness: reconciliation has changed the tree it loaded.
C8_Witness ==
  /\ pc = "reconciled" /\ Readable(diskProgress)
  /\ pipeline_progress # diskProgress.data

\* C9: a step of the walk that marks a continent, country, city or attraction
\* done finds every child of that node done.
C9_ParentDoneAfterChildren ==
  [][(pc \in WalkPcs /\ pc' \in WalkPcs \cup FinPcs) =>
       LET t == pipeline_progress
           u == pipeline_progress'
       IN  \A c \in 1..Len(t) :
             /\ (t[c].progress = TODO /\ u[c].progress = DONE)
                  => \A k \in 1..Len(u[c].countries) :
                       u[c].countries[k].progress = DONE
             /\ \A k \in 1..Len(t[c].countries) :
                  /\ (t[c].countries[k].progress = TODO
                        /\ u[c].countries[k].progress = DONE)
                       => \A ct \in 1..Len(u[c].countries[k].cities) :
                            u[c].countries[k].cities[ct].progress = DONE
                  /\ \A ct \in 1..Len(t[c].countries[k].cities) :
                       LET tc == t[c].countries[k].cities[ct]
                           uc == u[c].countries[k].cities[ct]
                       IN  /\ (tc.progress = TODO /\ uc.progress = DONE)
                                => \A a \in 1..Len(uc.attractions) :
                                     uc.attractions[a].progress = DONE
                           /\ \A a \in 1..Len(tc.attractions) :
                                (tc.attractions[a].progress = TODO
                                   /\ uc.attractions[a].progress = DONE)
                                  => \A r \in 1..Len(uc.attractions[a].reviews) :
                                       uc.attractions[a].reviews[r].progress = DONE]_vars

\* C9 witness: the walk has just marked the first continent done, below which
\* countries, cities, attractions and reviews exist.
C9_Witness ==
  /\ pc = "continent" /\ idx.ci = 2 /\ runs = 1
  /\ pipeline_progress[1].progress = DONE
  /\ Len(pipeline_progress[1].countries[2].cities[2].attractions) = 2
  /\ Len(pipeline_progress[1].countries[1].cities[1].attractions[1].reviews) = 2

\* The walk stands at a node that the skip rule applies to.
AtDoneContinent ==
  /\ pc = "continent" /\ idx.ci <= Len(Places) /\ PC # 0
  /\ pipeline_progress[PC].progress = DONE
AtDoneCountry ==
  /\ pc = "country" /\ idx.ki <= Len(continent.countries) /\ PK # 0
  /\ pipeline_progress[PC].countries[PK].progress = DONE
AtDoneCity ==
  /\ pc = "city" /\ idx.ti <= Len(country.cities) /\ PT # 0
  /\ pipeline_progress[PC].countries[PK].cities[PT].progress = DONE
AtDoneAttraction ==
  /\ pc = "attraction" /\ idx.ai <= Len(city_attractions) /\ PA # 0
  /\ LET ap == pipeline_progress[PC].countries[PK].cities[PT].attractions[PA]
     IN  ap.progress = DONE /\ Len(ap.reviews) > 0
AtDoneReview ==
  /\ pc = "review" /\ idx.ri <= Len(reviews) /\ PR # 0
  /\ pipeline_progress[PC].countries[PK].cities[PT].attractions[PA]
       .reviews[PR].progress = DONE

\* A step of the main thread: no signal arrives and the process is not killed.
MainThreadStep ==
  interrupted_count' = interrupted_count /\ outcome' # "killed"

\* C10: at a done node the walk moves to the next sibling and nothing else
\* happens: no level below is entered (no lookup, no fetch, no add_edge) and
\* neither the tree nor the graph, the catalog, the cache or a file changes.
C10_DoneSubtreeSkipped ==
  [][(MainThreadStep /\ (AtDoneContinent \/ AtDoneCountry \/ AtDoneCity
                           \/ AtDoneAttraction \/ AtDoneReview)) =>
       /\ UNCHANGED <<memory, disk, writes, pc, outcome>>
       /\ idx' = [idx EXCEPT
                    !.ci = IF pc = "continent" THEN @ + 1 ELSE @,
                    !.ki = IF pc = "country" THEN @ + 1 ELSE @,
                    !.ti = IF pc = "city" THEN @ + 1 ELSE @,
                    !.ai = IF pc = "attraction" THEN @ + 1 ELSE @,
                    !.ri = IF pc = "review" THEN @ + 1 ELSE @]]_vars

\* C10 witness: in a second run the walk has passed over a city that the
\* reconciled progress file marks done, inside a country that is not done,
\* and the graph is still the one loaded from disk.
C10_Witness ==
  /\ runs = 2 /\ pc = "city" /\ idx.ti > 1
  /\ Readable(diskProgress) /\ Readable(diskGraph)
  /\ mark_empty_attractions(diskProgress.data)[PC].countries[PK]
       .cities[idx.ti - 1].progress = DONE
  /\ pipeline_progress[PC].countries[PK].progress = TODO
  /\ pipeline_progress = mark_empty_attractions(diskProgress.data)
  /\ AttractionSentimentNet = diskGraph.data

\* The graph the running process loaded at its start: the walk writes no
\* graph file, so it is still what the file holds.
LoadedGraph == IF ExistsNonEmpty(diskGraph) THEN diskGraph.data ELSE EmptyGraph

\* The checkpoint the walking process resumed from, as reconciled at its
\* start: the walk does not write the progress file.
Checkpoint == mark_empty_attractions(diskProgress.data)

\* Country k of continent c of the catalog is marked done in tree t.
CountryDoneIn(t, c, k) ==
  LET tc == IndexOfName(t, Places[c].name) IN
  /\ tc # 0
  /\ LET tk == IndexOfName(t[tc].countries, Places[c].countries[k].name) IN
     tk # 0 /\ t[tc].countries[tk].progress = DONE

\* City ct of that country is marked done in tree t.
CityDoneIn(t, c, k, ct) ==
  LET tc == IndexOfName(t, Places[c].name) IN
  /\ tc # 0
  /\ LET tk == IndexOfName(t[tc].countries, Places[c].countries[k].name) IN
     /\ tk # 0
     /\ LET tt == IndexOfName(t[tc].countries[tk].cities,
                              Places[c].countries[k].cities[ct].name) IN
        tt # 0 /\ t[tc].countries[tk].cities[tt].progress = DONE

\* The edges of graph g at the attractions of country k of continent c, with
\* their weight, count and dates.
EdgesOfCountry(g, c, k) ==
  LET ids == UNION {{getNearbyAttractions(Places[c].countries[k].cities[ct].name)[a].id :
                       a \in 1..Len(getNearbyAttractions(
                                      Places[c].countries[k].cities[ct].name))} :
                    ct \in 1..Len(Places[c].countries[k].cities)}
  IN  [key \in {e \in DOMAIN g.edges : e[1] \in ids \/ e[2] \in ids} |-> g.edges[key]]

\* C11: in a run resumed from a checkpoint, a country A that the checkpoint
\* marks done is never entered and the edges of A's attractions keep the
\* weight, count and dates they were loaded with, up to the finalization; and
\* inside a country B that is not done the city being processed is not done in
\* the checkpoint while every city of B before it is done, so that processing
\* in B starts at its first not-done city.
C11_ResumeAtFirstNotDoneCity ==
  (pc \in WalkPcs \cup {"fin_progress"} /\ Readable(diskProgress)) =>
    /\ \A c \in 1..Len(Places) : \A k \in 1..Len(Places[c].countries) :
         CountryDoneIn(Checkpoint, c, k) =>
           /\ ~(pc \in {"city", "attraction", "review", "obs"}
                  /\ idx.ci = c /\ idx.ki = k)
           /\ EdgesOfCountry(AttractionSentimentNet, c, k)
                = EdgesOfCountry(LoadedGraph, c, k)
    /\ pc \in {"attraction", "review", "obs"} =>
         /\ ~CityDoneIn(Checkpoint, idx.ci, idx.ki, idx.ti)
         /\ \A ct \in 1..(idx.ti - 1) :
              CityDoneIn(pipeline_progress, idx.ci, idx.ki, ct)

\* C11 witness: a second run works in Rome, the second city of IT: the
\* checkpoint marks FR and Milan done and IT not done, FR was skipped and the
\* edges of the Louvre are the ones loaded from the graph file.
C11_Witness ==
  /\ runs = 2 /\ pc = "review" /\ idx.ci = 1 /\ idx.ki = 2 /\ idx.ti = 2
  /\ Readable(diskProgress) /\ Readable(diskGraph)
  /\ CountryDoneIn(Checkpoint, 1, 1)
  /\ ~CountryDoneIn(Checkpoint, 1, 2)
  /\ CityDoneIn(Checkpoint, 1, 2, 1)
  /\ DOMAIN EdgesOfCountry(AttractionSentimentNet, 1, 1) # {}
  /\ EdgesOfCountry(AttractionSentimentNet, 1, 1) = EdgesOfCountry(diskGraph.data, 1, 1)

\* The first process has gone through the whole catalog and no SIGINT was
\* delivered to it.
FirstRunUninterrupted ==
  /\ pc = "off" /\ runs = 1 /\ outcome = "completed" /\ interrupted_count = 0

\* C12: with the catalog of one continent, one country, one city, whose one
\* attraction has one review of rating 5 with one sentence of compound 0.8
\* and the adjective "wonderful", one uninterrupted run from an empty disk
\* leaves a graph of exactly two nodes (the attraction and the emotion) and
\* one edge of weight 5 and count 1, and a progress tree in which the review,
\* the attraction, the city, the country and the continent are done.
C12_EndToEnd ==
  (catalog = "single" /\ FirstRunUninterrupted) =>
    /\ Readable(diskGraph)
    /\ LET g == diskGraph.data IN
       /\ Cardinality(DOMAIN g.nodes) = 2
       /\ "w1" \in DOMAIN g.nodes
       /\ g.nodes["w1"].type = "attraction"
       /\ \E e \in DOMAIN g.nodes : e # "w1" /\ g.nodes[e].name = "wonderful"
       /\ Cardinality(DOMAIN g.edges) = 1
       /\ \A key \in DOMAIN g.edges :
            /\ "w1" \in {key[1], key[2]}
            /\ g.edges[key].weight = 5
            /\ g.edges[key].count = 1
    /\ Readable(diskProgress)
    /\ LET t == diskProgress.data IN
       /\ Len(t) = 1 /\ t[1].progress = DONE
       /\ Len(t[1].countries) = 1 /\ t[1].countries[1].progress = DONE
       /\ Len(t[1].countries[1].cities) = 1
       /\ LET tc == t[1].countries[1].cities[1] IN
          /\ tc.progress = DONE
          /\ Len(tc.attractions) = 1
          /\ tc.attractions[1].id = "w1"
          /\ tc.attractions[1].progress = DONE
          /\ Len(tc.attractions[1].reviews) = 1
          /\ tc.attractions[1].reviews[1].progress = DONE

\* C12 witness: that run has ended and left a graph file.
C12_Witness ==
  /\ catalog = "single" /\ FirstRunUninterrupted /\ resets = 0
  /\ exit_code = 0
  /\ Readable(diskGraph) /\ Readable(diskProgress)
  /\ writes = <<"info", "progress", "cache", "emotions", "graph", "info">>

\* The edge the call under repetition feeds has count n and weight w.
RepeatedEdgeIs(n, w) ==
  LET c == repeated.call
      g == AttractionSentimentNet
  IN  /\ Lower(c.emotion_name) \in DOMAIN emotions_dict
      /\ LET e == emotions_dict[Lower(c.emotion_name)].id IN
         /\ EdgeKey(g, c.attraction.id, e) \in DOMAIN g.edges
         /\ g.edges[EdgeKey(g, c.attraction.id, e)].count = n
         /\ g.edges[EdgeKey(g, c.attraction.id, e)].weight = w

\* The adequacy weight of one call under repetition.
SingleCallWeight ==
  calculate_adequacy_weight(repeated.call.signal.sentiment_score,
                            repeated.call.signal.review_rating)

\* C13 as claimed: after the same call was made N >= 1 times, interleaved
\* with any other calls, its edge has count N and weight N times the adequacy
\* weight of one call.
C13_RepeatedCallAmongAny ==
  repeated.times >= 1 =>
    RepeatedEdgeIs(repeated.times, repeated.times * SingleCallWeight)

\* C13 amended: after the same call was made N >= 1 times on a graph that
\* had no such edge, interleaved with any calls that address another
\* attraction or another emotion (by lowercase name), its edge has count N and
\* weight N times the adequacy weight of one call.
C13_RepeatedCallAmongOtherEdges ==
  (repeated.times >= 1 /\ repeated.others = 0) =>
    RepeatedEdgeIs(repeated.times, repeated.times * SingleCallWeight)

\* C13 witness: the call was made twice with a call for another edge in
\* between or around, and its edge has count 2.
C13_Witness ==
  /\ repeated.times = 2 /\ repeated.others = 0 /\ repeated.total = 3
  /\ RepeatedEdgeIs(2, 2 * SingleCallWeight)
  /\ Cardinality(DOMAIN AttractionSentimentNet.edges) = 2

\* C14: calculate_adequacy_weight returns an integer from 1 to 5 for every
\* score and rating, those outside [-1, 1] and [1, 5] included.
C14_WeightInRange ==
  weight_call.called => weight_call.adequacy_weight \in 1..5

\* C14 witness: the function has returned for a score above 1 and a rating
\* above 5.
C14_Witness ==
  /\ weight_call.called
  /\ weight_call.sentiment_score = 150 /\ weight_call.user_rating = 7
  /\ weight_call.adequacy_weight = 5

\* The formula of the specification, in hundredths: the clamped score and
\* rating, and clamp(3 + 2 * (score * (rating - 3) / 2), 1, 5).
FormulaScore == Max2(-100, Min2(100, weight_call.sentiment_score))
FormulaRating == Max2(1, Min2(5, weight_call.user_rating))
FormulaClamped ==
  Max2(100, Min2(500, 300 + (2 * (FormulaScore * (FormulaRating - 3))) \div 2))

\* C15: the weight returned is an integer nearest to the clamped value of the
\* formula; (1.0, 5) gives 5, (-1.0, 5) gives 1, (0.0, 3) gives 3 and
\* (-1.0, 1) gives 5; a score and a rating of the same polarity give at
\* least 3, and 5 when both are extreme; of opposite polarity at most 3, and
\* 1 when both are extreme; a neutral score or a rating of 3 gives 3.
C15_WeightFormula ==
  weight_call.called =>
    LET w == weight_call.adequacy_weight
        s == FormulaScore
        r == FormulaRating
    IN  /\ 100 * w - FormulaClamped \in (-50)..50
        /\ (weight_call.sentiment_score = 100 /\ weight_call.user_rating = 5) => w = 5
        /\ (weight_call.sentiment_score = -100 /\ weight_call.user_rating = 5) => w = 1
        /\ (weight_call.sentiment_score = 0 /\ weight_call.user_rating = 3) => w = 3
        /\ (weight_call.sentiment_score = -100 /\ weight_call.user_rating = 1) => w = 5
        /\ (s * (r - 3) > 0) => w >= 3
        /\ (s * (r - 3) < 0) => w <= 3
        /\ (s * (r - 3) = 200) => w = 5
        /\ (s * (r - 3) = -200) => w = 1
        /\ (s = 0 \/ r = 3) => w = 3

\* C15 witness: the function has returned 5 for the most negative score and
\* the lowest rating.
C15_Witness ==
  /\ weight_call.called
  /\ weight_call.sentiment_score = -100 /\ weight_call.user_rating = 1
  /\ weight_call.adequacy_weight = 5

\* Every invocation so far has failed with an error that was retried.
OnlyRetriedFailures == retry.sleeps = retry.invocations

\* C16: as long as every attempt fails with a retryable error the executor
\* goes on; it has invoked the operation exactly max_retries times when it
\* raises the retries-exhausted error, which is the only way such a call
\* ends; the operation is never invoked more than max_retries times.
C16_ExhaustedAfterMaxRetries ==
  /\ retry.invocations <= retry.max_retries
  /\ (retry.result = "RuntimeError") =>
       (retry.invocations = retry.max_retries /\ OnlyRetriedFailures)
  /\ (retry.result # "none" /\ OnlyRetriedFailures) =>
       /\ retry.result \in {"calling", "RuntimeError"}
       /\ (retry.result = "calling") <=> (retry.invocations < retry.max_retries)

\* C16 witness: with the default of 12 retries the executor has raised after
\* 12 invocations.
C16_Witness ==
  /\ retry.max_retries = 12 /\ retry.result = "RuntimeError"
  /\ retry.invocations = 12 /\ retry.sleeps = 12

\* The errors the specification calls retryable.
ClaimedRetryable ==
  {"gax.ResourceExhausted", "gax.TooManyRequests", "gax.ServiceUnavailable",
   "gax.DeadlineExceeded",
   "grpc.RESOURCE_EXHAUSTED", "grpc.UNAVAILABLE", "grpc.DEADLINE_EXCEEDED"}

\* C17: an attempt that fails with an error other than resource exhausted /
\* rate limited, service unavailable or deadline exceeded (as API error or
\* as gRPC status code) ends the call with that error, without a sleep; an
\* attempt that fails with one of these is followed by a sleep and does not
\* end the call with that error; after an error has propagated the operation
\* is not invoked again.
C17_FatalPropagatesAtOnce ==
  [][/\ (retry.result = "calling" /\ retry' # retry
           /\ retry'.last_error \notin ClaimedRetryable \cup {"ok"}) =>
          /\ retry'.result = "raised"
          /\ retry'.sleeps = retry.sleeps
          /\ retry'.invocations = retry.invocations + 1
     /\ (retry.result = "calling" /\ retry' # retry
           /\ retry'.last_error \in ClaimedRetryable) =>
          /\ retry'.result # "raised"
          /\ retry'.sleeps = retry.sleeps + 1
     /\ (retry.result = "raised") => retry' = retry]_vars

\* C17 witness: after one retried failure the second attempt failed with a
\* gRPC code that is not retried, and the error has propagated.
C17_Witness ==
  /\ retry.result = "raised" /\ retry.last_error = "grpc.INTERNAL"
  /\ retry.invocations = 2 /\ retry.sleeps = 1 /\ retry.max_retries = 12

\* C18: the failure of an emotion classification (a fatal error, or the
\* retries used up) never ends the walk of a process: no process ends its
\* walk with an error.
C18_FailureDoesNotAbortRun == outcome # "error"

\* C19: a process that finds no progress file, or one that cannot be parsed,
\* does not crash: its next step is the reconciliation of the tree
\* synthesized from the catalog, with the catalog's continents, countries and
\* cities in order, every node not-done and no attractions.
C19_BadCheckpointSynthesized ==
  [][(pc = "imported" /\ ~Readable(diskProgress) /\ MainThreadStep) =>
       /\ pc' = "reconciled"
       /\ pipeline_progress' = SynthesizedProgress]_vars

\* Tree t has the catalog's continents, countries and cities in order, all
\* not-done, and no attraction.
FreshTree(t) ==
  /\ Len(t) = Len(Places)
  /\ \A c \in 1..Len(Places) :
       /\ t[c].name = Places[c].name /\ t[c].progress = TODO
       /\ Len(t[c].countries) = Len(Places[c].countries)
       /\ \A k \in 1..Len(Places[c].countries) :
            LET tk == t[c].countries[k]
                pk == Places[c].countries[k]
            IN  /\ tk.name = pk.name /\ tk.progress = TODO
                /\ Len(tk.cities) = Len(pk.cities)
                /\ \A ct \in 1..Len(pk.cities) :
                     /\ tk.cities[ct].name = pk.cities[ct].name
                     /\ tk.cities[ct].progress = TODO
                     /\ tk.cities[ct].attractions = << >>

\* The step of a process started with --reset.
ResetStep == resets' = resets + 1

C21_ExitCodes ==
  (pc = "off" /\ outcome \notin {"none", "reset"}) =>
     /\ outcome = "completed" => (exit_code = 0 /\ interrupted_count < 2)
     /\ outcome = "interrupted" => (exit_code = 0 /\ interrupted_count = 1)
     /\ interrupted_count >= 2 => exit_code # 0

\* A second SIGINT arrived during the walk, the finally block saved all five
\* files and the process ended with a code other than 0.
C21_Witness ==
  /\ pc = "off"
  /\ interrupted_count = 2
  /\ outcome = "forced"
  /\ Len(writes) = Len(FinOrder)
  /\ exit_code = 1

\* ---------------------------------------------------------------- C22
\* The records of the city the walk is in.
CityRecords == pipeline_progress[PC].countries[PK].cities[PT].attractions

\* The walk stands at an attraction whose record holds no review.
AtEmptyAttraction ==
  /\ pc = "attraction" /\ idx.ai <= Len(city_attractions) /\ PA # 0
  /\ Len(CityRecords[PA].reviews) = 0

\* The attractions of the current city the walk has gone past in this run.
Passed == 1..(IF pc = "attraction" THEN idx.ai - 1 ELSE idx.ai)

\* C22: the skip rule never passes over an attraction whose recorded review
\* list is empty, whatever its status: the walk fetches its reviews and
\* enters its review loop.  So in a run that walks its city, every attraction
\* the walk has gone past was either skipped with reviews on record or
\* processed in this run (its status, re-opened at the start of the run, is
\* done again).
C22_EmptyAttractionFetched ==
  /\ [][(MainThreadStep /\ AtEmptyAttraction) =>
          /\ pc' = "review"
          /\ idx' = [idx EXCEPT !.ri = 1]
          /\ "reviews" \in caches'
          /\ pipeline_progress' = pipeline_progress]_vars
  /\ [](pc \in {"attraction", "review", "obs"} =>
          \A i \in Passed \cap 1..Len(city_attractions) :
             LET a == IndexOfId(CityRecords, city_attractions[i].id)
             IN  /\ a # 0
                 /\ (i < idx.ai \/ pc = "attraction") =>
                       CityRecords[a].progress = DONE)

\* C22 witness: the progress file records the Gate as done with no reviews;
\* the second run has walked to it, fetched its reviews and entered its
\* review loop.
C22_Witness ==
  /\ runs = 2 /\ pc = "review" /\ attraction.id = "q2"
  /\ Readable(diskProgress)
  /\ LET recs == diskProgress.data[PC].countries[PK].cities[PT].attractions
         a == IndexOfId(recs, "q2")
     IN  a # 0 /\ recs[a].progress = DONE /\ Len(recs[a].reviews) = 0

\* ---------------------------------------------------------------- C23
\* C23: whatever SIGINTs arrive and whenever, every edge of a persisted graph
\* is made of whole observations: as many dates as its count says, and a
\* weight that is the sum of `count` adequacy weights (each from 1 to 5).
C23_NoHalfAppliedPersisted ==
  Readable(diskGraph) =>
     \A k \in DOMAIN diskGraph.data.edges :
        LET d == diskGraph.data.edges[k]
        IN  /\ d.count = Len(d.review_dates)
            /\ d.count <= d.weight
            /\ d.weight <= 5 * d.count

\* ---------------------------------------------------------------- C24
\* The walk has finished the reviews of an attraction (line 370 is next).
AttractionCompletes == pc = "review" /\ idx.ri > Len(reviews)

\* C24: the first attraction that completes after a SIGINT ends the walk:
\* the attraction is marked done, its city, country and continent stay
\* not-done (also when it was the last attraction of the last city), and the
\* process goes to the finally block, where the tree, the graph, the emotion
\* catalog and the classifier cache no longer change and nothing is fetched.
C24_WalkAbortsAtEveryLevel ==
  /\ [][(MainThreadStep /\ AttractionCompletes /\ interrupted) =>
          /\ pc' = FinOrder[1] /\ outcome' = "interrupted"
          /\ pipeline_progress' =
               [pipeline_progress EXCEPT
                  ![PC].countries[PK].cities[PT].attractions[PA].progress = DONE]
          /\ pipeline_progress'[PC].progress = TODO
          /\ pipeline_progress'[PC].countries[PK].progress = TODO
          /\ pipeline_progress'[PC].countries[PK].cities[PT].progress = TODO
          /\ UNCHANGED <<AttractionSentimentNet, emotions_dict, caches>>]_vars
  /\ [][(pc \in FinPcs /\ pc' # "off") =>
          (pc' \in FinPcs /\ UNCHANGED <<memory, caches>>)]_vars

\* C24 witness: a SIGINT arrived while the only attraction of the only city
\* of France was processed; the run ended gracefully and the progress file
\* holds the attraction done, and Paris, France and Europe not done.
C24_Witness ==
  /\ pc = "off" /\ runs = 1 /\ outcome = "interrupted"
  /\ Readable(diskProgress)
  /\ LET eu == diskProgress.data[1]
         fr == eu.countries[1]
         paris == fr.cities[1]
     IN  /\ Len(paris.attractions) = 1
         /\ paris.attractions[1].progress = DONE
         /\ paris.progress = TODO /\ fr.progress = TODO /\ eu.progress = TODO

\* ---------------------------------------------------------------- C25
\* The edge the call made last went to.
RecordedEdge ==
  EdgeKey(AttractionSentimentNet, recorded.call.attraction.place.id,
          emotions_dict[Lower(recorded.call.emotion.emotion_name)].id)

\* C25: add_edge leaves every node that exists as it is, whatever display
\* name, rating, location labels, emotion type or associated emotion the
\* call carries, and leaves every edge but its own as it is.
C25_NodesFirstWriterWins ==
  [][recorded' # recorded =>
       /\ \A n \in DOMAIN AttractionSentimentNet.nodes :
            /\ n \in DOMAIN AttractionSentimentNet'.nodes
            /\ AttractionSentimentNet'.nodes[n] = AttractionSentimentNet.nodes[n]
       /\ \A k \in DOMAIN AttractionSentimentNet.edges :
            /\ k \in DOMAIN AttractionSentimentNet'.edges
            /\ k # RecordedEdge' =>
                 AttractionSentimentNet'.edges[k] = AttractionSentimentNet.edges[k]]_vars

\* C25 witness: the last call named the Louvre "Le Louvre" in Lyon with
\* rating 4 and the emotion "great" a noun associated with Anger; the
\* nodes still say Louvre, Paris, 5 and adjective, Joy, and the edge counts
\* two observations.
C25_Witness ==
  /\ recorded.calls = 2
  /\ recorded.call.attraction.place.name = "Le Louvre"
  /\ recorded.call.emotion.emotion_type = "noun"
  /\ "p1" \in DOMAIN AttractionSentimentNet.nodes
  /\ AttractionSentimentNet.nodes["p1"].name = "Louvre"
  /\ AttractionSentimentNet.nodes["p1"].rating = 5
  /\ AttractionSentimentNet.nodes["p1"].location.city = "Paris"
  /\ "adjective_1" \in DOMAIN AttractionSentimentNet.nodes
  /\ AttractionSentimentNet.nodes["adjective_1"].type = "adjective"
  /\ AttractionSentimentNet.nodes["adjective_1"].associated_emotion = "Joy"
  /\ AttractionSentimentNet.edges[RecordedEdge].count = 2

\* ---------------------------------------------------------------- C26
\* The lowercase spelling of the emotion names the calls carry.
LowercaseNames == {"great", "old"}
LowercaseOf(name) == IF name \in {"Great", "great"} THEN "great" ELSE name

\* The number of observations on the edge between attraction a and emotion
\* node e of graph g, none when there is no such edge.
CountOn(g, a, e) ==
  IF EdgeKey(g, a, e) \in DOMAIN g.edges
  THEN g.edges[EdgeKey(g, a, e)].count ELSE 0

\* The nodes of the graph that are not attractions.
EmotionNodes ==
  {n \in DOMAIN AttractionSentimentNet.nodes :
     AttractionSentimentNet.nodes[n].type # "attraction"}

\* C26: the catalog is keyed by lowercase names and each entry carries its
\* key as name; entries, ids and emotion nodes correspond one to one; and a
\* call goes to the entry and the node of the lowercase spelling of its
\* emotion name, whatever the letter case it was written in.
C26_IdentityByLowercaseName ==
  /\ [](/\ DOMAIN emotions_dict \subseteq LowercaseNames
        /\ \A k \in DOMAIN emotions_dict : emotions_dict[k].name = k
        /\ \A k, l \in DOMAIN emotions_dict :
             emotions_dict[k].id = emotions_dict[l].id => k = l
        /\ EmotionNodes = {emotions_dict[k].id : k \in DOMAIN emotions_dict}
        /\ \A k \in DOMAIN emotions_dict :
             AttractionSentimentNet.nodes[emotions_dict[k].id].name = k)
  /\ [][recorded' # recorded =>
          LET c == recorded'.call
              k == LowercaseOf(c.emotion.emotion_name)
          IN  /\ k \in DOMAIN emotions_dict'
              /\ k \in DOMAIN emotions_dict => emotions_dict'[k] = emotions_dict[k]
              /\ CountOn(AttractionSentimentNet', c.attraction.place.id,
                         emotions_dict'[k].id)
                 = CountOn(AttractionSentimentNet, c.attraction.place.id,
                           emotions_dict'[k].id) + 1]_vars

\* C26 witness: "Great" was recorded and then "great", for the same
\* attraction; the catalog holds the one entry "great" and its edge counts
\* both observations.
C26_Witness ==
  /\ recorded.calls = 2
  /\ recorded.call.emotion.emotion_name = "great"
  /\ DOMAIN emotions_dict = {"great"}
  /\ emotions_dict["great"].type = "adjective"
  /\ CountOn(AttractionSentimentNet, recorded.call.attraction.place.id,
             emotions_dict["great"].id) = 2

\* ---------------------------------------------------------------- C27
\* C27: a call whose lowercase emotion name is not in the catalog adds one
\* entry under that name, with id "<emotion_type>_<k+1>" for a catalog of k
\* entries and the type and associated emotion of the call; a call whose
\* name is in the catalog leaves the catalog as it is.  Either way every
\* entry that was there stays, unchanged.
C27_MintOrReuse ==
  [][recorded' # recorded =>
       LET c == recorded'.call.emotion
           k == LowercaseOf(c.emotion_name)
           size == Cardinality(DOMAIN emotions_dict)
       IN  /\ \A j \in DOMAIN emotions_dict :
                j \in DOMAIN emotions_dict' /\ emotions_dict'[j] = emotions_dict[j]
           /\ IF k \in DOMAIN emotions_dict
              THEN emotions_dict' = emotions_dict
              ELSE /\ DOMAIN emotions_dict' = DOMAIN emotions_dict \cup {k}
                   /\ Cardinality(DOMAIN emotions_dict') = size + 1
                   /\ emotions_dict'[k] =
                        [id |-> c.emotion_type \o "_" \o ToString(size + 1),
                         name |-> k,
                         type |-> c.emotion_type,
                         associated_emotion |-> c.associated_emotion]]_vars

\* C27 witness: "great" came first as a noun and "old" second as an
\* adjective; a third call named an emotion again and the catalog still has
\* the two entries noun_1 and adjective_2.
C27_Witness ==
  /\ recorded.calls = 3
  /\ DOMAIN emotions_dict = {"great", "old"}
  /\ emotions_dict["great"].id = "noun_1"
  /\ emotions_dict["old"].id = "adjective_2"
  /\ recorded.call.emotion.emotion_name = "Great"

\* ---------------------------------------------------------------- C28
\* C28: on an edge that exists a call adds its adequacy weight to weight,
\* adds 1 to count and appends its date to the date list when a date was
\* given (and leaves the list alone when none was); on a missing edge it
\* creates the edge with that weight, count 1 and the date as only entry.
C28_AccumulateOrCreate ==
  [][recorded' # recorded =>
       LET c == recorded'.call
           g == AttractionSentimentNet
           e == emotions_dict'[LowercaseOf(c.emotion.emotion_name)].id
           w == calculate_adequacy_weight(c.emotion.sentiment_score,
                                          c.emotion.review_rating)
           new == AttractionSentimentNet'.edges[
                    EdgeKey(AttractionSentimentNet', c.attraction.place.id, e)]
       IN  IF EdgeKey(g, c.attraction.place.id, e) \in DOMAIN g.edges
           THEN LET old == g.edges[EdgeKey(g, c.attraction.place.id, e)]
                IN  /\ new.weight = old.weight + w
                    /\ new.count = old.count + 1
                    /\ new.review_dates =
                         IF c.review_date # None
                         THEN Append(old.review_dates, c.review_date)
                         ELSE old.review_dates
           ELSE new = [weight |-> w, count |-> 1,
                       review_dates |-> <<c.review_date>>]]_vars

\* ---------------------------------------------------------------- C29
\* C29: the sleep that follows the failed attempt number a of a call (a = 0
\* for the first invocation of that call, however often earlier calls
\* invoked the operation) was asked to last between base_delay * 2^a and
\* base_delay * 2^a + 0.25 s and lasted at least that long before the
\* operation was invoked again or the call ended.
C29_BackoffDelay ==
  retry.sleeps > 0 =>
    LET a == retry.sleeps - 1
    IN  /\ retry.sleeps <= retry.invocations
        /\ BaseDelay * 2^a <= retry.delay
        /\ retry.delay <= BaseDelay * 2^a + MaxJitter
        /\ retry.slept >= retry.delay

\* C29 witness: an earlier call invoked the operation three times; in the
\* next call the first attempt failed and the executor slept between 1.0 and
\* 1.25 s before attempting again.
C29_Witness ==
  /\ retry.calls = 1 /\ retry.earlier = 3
  /\ retry.result = "calling" /\ retry.invocations = 1 /\ retry.sleeps = 1
  /\ retry.delay = BaseDelay + 12
  /\ retry.slept >= retry.delay

\* ---------------------------------------------------------------- C30
\* The keys of a list of children, in order.
NamesOf(seq) == [i \in 1..Len(seq) |-> seq[i].name]
IdsOf(seq) == [i \in 1..Len(seq) |-> seq[i].id]

\* No key occurs twice.
Distinct(keys) == \A i, j \in 1..Len(keys) : keys[i] = keys[j] => i = j

\* Every list of children of tree t has pairwise distinct keys.
KeysDistinct(t) ==
  /\ Distinct(NamesOf(t))
  /\ \A c \in 1..Len(t) :
       /\ Distinct(NamesOf(t[c].countries))
       /\ \A k \in 1..Len(t[c].countries) :
            LET cities == t[c].countries[k].cities
            IN  /\ Distinct(NamesOf(cities))
                /\ \A ct \in 1..Len(cities) :
                     /\ Distinct(IdsOf(cities[ct].attractions))
                     /\ \A a \in 1..Len(cities[ct].attractions) :
                          Distinct(IdsOf(cities[ct].attractions[a].reviews))

\* Keys `old` are the beginning of keys `new`: children were added at the
\* end only and those that were there kept their places.
GrownAtEnd(old, new) ==
  Len(old) <= Len(new) /\ \A i \in 1..Len(old) : new[i] = old[i]

\* Every list of children of tree t is the beginning of the list at the same
\* place in tree u.
TreeGrownAtEnd(t, u) ==
  /\ GrownAtEnd(NamesOf(t), NamesOf(u))
  /\ \A c \in 1..Len(t) :
       /\ GrownAtEnd(NamesOf(t[c].countries), NamesOf(u[c].countries))
       /\ \A k \in 1..Len(t[c].countries) :
            LET old == t[c].countries[k].cities
                new == u[c].countries[k].cities
            IN  /\ GrownAtEnd(NamesOf(old), NamesOf(new))
                /\ \A ct \in 1..Len(old) :
                     /\ GrownAtEnd(IdsOf(old[ct].attractions),
                                   IdsOf(new[ct].attractions))
                     /\ \A a \in 1..Len(old[ct].attractions) :
                          GrownAtEnd(IdsOf(old[ct].attractions[a].reviews),
                                     IdsOf(new[ct].attractions[a].reviews))

\* A process holds a progress tree.
HoldsTree == pc \in {"reconciled"} \cup WalkPcs \cup FinPcs

\* C30: the tree a process works on and the tree on disk never hold two
\* children with the same key under one parent, after any number of runs,
\* also when the catalog has grown in between; and no step of a process
\* removes a child or moves one: the tree it loaded, and the tree before any
\* of its steps, is found again at the beginning of every list of children.
C30_ChildrenDistinctAndStable ==
  /\ []((HoldsTree => KeysDistinct(pipeline_progress))
        /\ (Readable(diskProgress) => KeysDistinct(diskProgress.data)))
  /\ [][/\ (HoldsTree /\ pc' # "off"
              /\ pipeline_progress' # pipeline_progress) =>
             TreeGrownAtEnd(pipeline_progress, pipeline_progress')
        /\ (pc = "imported" /\ pc' = "reconciled" /\ Readable(diskProgress)) =>
             TreeGrownAtEnd(diskProgress.data, pipeline_progress')
        /\ (Readable(diskProgress) /\ Readable(diskProgress')
              /\ diskProgress' # diskProgress) =>
             TreeGrownAtEnd(diskProgress.data, diskProgress'.data)]_vars

\* C30 witness: a second run works with the grown catalog on a tree saved
\* under the older one: Spain, which the catalog lists first, was added
\* behind Italy and Milan behind Rome; in Rome the Forum and the Gate were
\* found again and the Duomo, new, was added to Milan.
C30_Witness ==
  /\ runs = 2 /\ catalog = "grown" /\ pc = "review" /\ attraction.id = "q2"
  /\ Readable(diskProgress)
  /\ NamesOf(diskProgress.data[1].countries) = <<"IT", "PT">>
  /\ IdsOf(diskProgress.data[1].countries[1].cities[1].attractions)
       = <<"q1", "q2">>
  /\ NamesOf(pipeline_progress[1].countries) = <<"IT", "PT", "ES">>
  /\ NamesOf(pipeline_progress[1].countries[1].cities) = <<"Rome", "Milan">>
  /\ IdsOf(pipeline_progress[1].countries[1].cities[1].attractions)
       = <<"q1", "q2">>
  /\ IdsOf(pipeline_progress[1].countries[1].cities[2].attractions) = <<"m1">>

\* ---------------------------------------------------------------- C31
\* The walk stands at a node of the catalog, or of a fetch, that the tree
\* does not hold.
AtMissingContinent == pc = "continent" /\ idx.ci <= Len(Places) /\ PC = 0
AtMissingCountry == pc = "country" /\ idx.ki <= Len(continent.countries) /\ PK = 0
AtMissingCity == pc = "city" /\ idx.ti <= Len(country.cities) /\ PT = 0
AtMissingAttraction ==
  pc = "attraction" /\ idx.ai <= Len(city_attractions) /\ PA = 0
AtMissingReview == pc = "review" /\ idx.ri <= Len(reviews) /\ PR = 0

\* The level the walk enters from where it stands.
LevelBelow ==
  CASE pc = "continent" -> "country"
    [] pc = "country" -> "city"
    [] pc = "city" -> "attraction"
    [] pc = "attraction" -> "review"
    [] OTHER -> "obs"

\* The status of the children of a list, in order.
StatusOf(seq) == [i \in 1..Len(seq) |-> seq[i].progress]

\* Every node of tree t has in tree u the status it has in t.
StatusKept(t, u) ==
  /\ GrownAtEnd(StatusOf(t), StatusOf(u))
  /\ \A c \in 1..Len(t) :
       /\ GrownAtEnd(StatusOf(t[c].countries), StatusOf(u[c].countries))
       /\ \A k \in 1..Len(t[c].countries) :
            LET old == t[c].countries[k].cities
                new == u[c].countries[k].cities
            IN  /\ GrownAtEnd(StatusOf(old), StatusOf(new))
                /\ \A ct \in 1..Len(old) :
                     /\ GrownAtEnd(StatusOf(old[ct].attractions),
                                   StatusOf(new[ct].attractions))
                     /\ \A a \in 1..Len(old[ct].attractions) :
                          GrownAtEnd(StatusOf(old[ct].attractions[a].reviews),
                                     StatusOf(new[ct].attractions[a].reviews))

\* C31: at a node the loaded tree lacks, at any level, the walk adds the node
\* at the end of its parent's children, keeps the status of every node that
\* was there and goes on into the new node without an error; and a node the
\* walk passes over as done lacks none of the children the catalog lists for
\* it, so that no new node stays unvisited.
C31_MissingNodeAppended ==
  [][/\ (MainThreadStep /\ (AtMissingContinent \/ AtMissingCountry
                              \/ AtMissingCity \/ AtMissingAttraction
                              \/ AtMissingReview)) =>
          /\ pc' = LevelBelow
          /\ outcome' = outcome
          /\ TreeGrownAtEnd(pipeline_progress, pipeline_progress')
          /\ StatusKept(pipeline_progress, pipeline_progress')
          /\ pipeline_progress' # pipeline_progress
     /\ (MainThreadStep /\ AtDoneContinent) =>
          \A k \in 1..Len(continent.countries) :
             IndexOfName(pipeline_progress[PC].countries,
                         continent.countries[k].name) # 0
     /\ (MainThreadStep /\ AtDoneCountry) =>
          \A t \in 1..Len(country.cities) :
             IndexOfName(pipeline_progress[PC].countries[PK].cities,
                         country.cities[t].name) # 0]_vars

\* ---------------------------------------------------------------- C32
\* C32: the nearby-attractions lookup never has more than MAX_THREADS = 4
\* worker threads, and never more than 4 requests under way; when it has
\* returned, every work item has finished and every worker thread has ended;
\* and every step that changes the graph or the progress tree is taken by
\* the orchestrator thread after such a return, with no worker thread alive.
C32_LookupJoinsItsWorkers ==
  /\ [](/\ pool.threads <= MAX_THREADS
        /\ Cardinality(Running) <= MAX_THREADS
        /\ pool.at = "returned" =>
              /\ pool.threads = 0
              /\ Running = {}
              /\ Queued = {})
  /\ [][(\/ AttractionSentimentNet' # AttractionSentimentNet
          \/ pipeline_progress' # pipeline_progress
          \/ emotions_dict' # emotions_dict) =>
            /\ pool.at = "returned"
            /\ pool'.mutations = pool.mutations + 1
            /\ pool.threads = 0
            /\ Running = {}
            /\ Queued = {}
            /\ pool'.taken = pool.taken
            /\ pool'.finished = pool.finished]_vars

\* C32 witness: a lookup that was not served from the cache had four worker
\* threads at once for its six requests, one of which raised, has returned,
\* and the orchestrator has recorded an observation in the graph since.
C32_Witness ==
  /\ pool.at = "idle"
  /\ pool.mutations = 1
  /\ pool.most = MAX_THREADS
  /\ pool.collected = PlaceTypeFilters
  /\ pool.responses = PlaceTypeFilters - 1
  /\ Len(pipeline_progress) = 1
  /\ AttractionSentimentNet # EmptyGraph

\* ---------------------------------------------------------------- C33
\* Every continent, country and city of the catalog and every attraction
\* getNearbyAttractions returns for those cities has a node marked done in
\* tree t.
AttractionsDone(as, found) ==
  \A a \in 1..Len(found) :
     /\ IndexOfId(as, found[a].id) # 0
     /\ as[IndexOfId(as, found[a].id)].progress = DONE

CitiesDone(ts, cities) ==
  \A j \in 1..Len(cities) :
     /\ IndexOfName(ts, cities[j].name) # 0
     /\ LET tp == ts[IndexOfName(ts, cities[j].name)]
        IN  /\ tp.progress = DONE
            /\ AttractionsDone(tp.attractions, getNearbyAttractions(cities[j].name))

CountriesDone(ks, countries) ==
  \A j \in 1..Len(countries) :
     /\ IndexOfName(ks, countries[j].name) # 0
     /\ LET kp == ks[IndexOfName(ks, countries[j].name)]
        IN  kp.progress = DONE /\ CitiesDone(kp.cities, countries[j].cities)

CatalogDone(t) ==
  \A j \in 1..Len(Places) :
     /\ IndexOfName(t, Places[j].name) # 0
     /\ LET cp == t[IndexOfName(t, Places[j].name)]
        IN  cp.progress = DONE /\ CountriesDone(cp.countries, Places[j].countries)

\* C33: when a process ends with its walk completed, the progress file it
\* leaves is readable and marks done every continent, country and city of
\* the catalog and every attraction returned for those cities.
C33_CompletedMarksAllDone ==
  [][(pc # "off" /\ pc' = "off" /\ outcome' = "completed") =>
        /\ Readable(diskProgress')
        /\ CatalogDone(diskProgress'.data)]_vars

\* C33 witness: the second process completed what the first, interrupted
\* one left open; the file marks the whole catalog done, Rome's attraction
\* without reviews included.
C33_Witness ==
  /\ pc = "off" /\ outcome = "completed" /\ runs = 2 /\ exit_code = 0
  /\ interrupted_count = 0
  /\ Readable(diskProgress)
  /\ CatalogDone(diskProgress.data)
  /\ Len(diskProgress.data) = 2

\* ---------------------------------------------------------------- C34
\* The review the walk is at is marked done in tree t.
ReviewAtHandDoneIn(t) ==
  ReviewDoneIn(t, continent.name, country.name, city.name, attraction.id,
               review.review_id)

\* Every adjective of every sentence of the review at hand has its edge.
AllObservationsRecorded ==
  \A i \in 1..Len(observations) :
     /\ Lower(observations[i].adjective) \in DOMAIN emotions_dict
     /\ CountOn(AttractionSentimentNet, attraction.id,
                emotions_dict[Lower(observations[i].adjective)].id) >=
          Cardinality({j \in 1..Len(observations) :
                         Lower(observations[j].adjective) =
                         Lower(observations[i].adjective)})

\* C34: while the adjectives of a review are being recorded the review is
\* not marked done, neither in memory nor in the progress file; the step
\* that marks it done is the one after its last adjective, when every
\* adjective of every sentence has its edge in the graph; and a step that
\* ends the processing part-way (a forced exit, a classifier error) leaves
\* the review not done in the tree that is saved.
C34_ReviewDoneAfterAllObservations ==
  /\ [](pc = "obs" =>
          /\ ~ReviewAtHandDoneIn(pipeline_progress)
          /\ Readable(diskProgress) => ~ReviewAtHandDoneIn(diskProgress.data))
  /\ [][/\ (pc = "obs" /\ pc' # "off" /\ ReviewAtHandDoneIn(pipeline_progress')) =>
               /\ idx.oi > Len(observations)
               /\ AllObservationsRecorded
        /\ (pc = "obs" /\ idx.oi <= Len(observations) /\ pc' \in FinPcs) =>
               /\ outcome' \in {"forced", "error"}
               /\ pipeline_progress' = pipeline_progress]_vars

\* C34 witness: the walk recorded "Great" of the first review of the Louvre
\* and was then ended by the classifier failing on "old"; the tree about to
\* be saved holds the review, not done, and the graph holds the one edge.
C34_Witness ==
  /\ pc = "fin_progress" /\ outcome = "error" /\ runs = 1
  /\ Len(pipeline_progress) = 2
  /\ Len(pipeline_progress[1].countries[1].cities[1].attractions) = 1
  /\ pipeline_progress[1].countries[1].cities[1].attractions[1].reviews =
       << [id |-> "r1", progress |-> TODO] >>
  /\ Cardinality(DOMAIN AttractionSentimentNet.edges) = 1

\* ---------------------------------------------------------------- C35
\* C35: in every state of every process, also of one that loaded what an
\* earlier process saved, two entries of the emotion catalog with the same
\* id are the same entry; a node of the graph that carries the id of a
\* catalog entry carries that entry's name; and an id minted by add_edge is
\* neither the id of a catalog entry nor that of a node of the graph.
C35_DistinctIdsAcrossRuns ==
  /\ [](/\ \A k, l \in DOMAIN emotions_dict :
             emotions_dict[k].id = emotions_dict[l].id => k = l
        /\ \A k \in DOMAIN emotions_dict :
             has_node(AttractionSentimentNet, emotions_dict[k].id) =>
               AttractionSentimentNet.nodes[emotions_dict[k].id].name = k)
  /\ [][pc = "obs" =>
          \A k \in DOMAIN emotions_dict' \ DOMAIN emotions_dict :
             /\ \A l \in DOMAIN emotions_dict :
                  emotions_dict[l].id # emotions_dict'[k].id
             /\ ~has_node(AttractionSentimentNet, emotions_dict'[k].id)]_vars

\* ---------------------------------------------------------------- C36
\* C36: after any sequence of add_edge calls every edge of the graph has a
\* count of at least 1, a weight between count and 5 * count, and as many
\* review dates as its count.
C36_EdgeTallies ==
  \A k \in DOMAIN AttractionSentimentNet.edges :
     LET e == AttractionSentimentNet.edges[k]
     IN  /\ e.count >= 1
         /\ e.count <= e.weight
         /\ e.weight <= 5 * e.count
         /\ Len(e.review_dates) = e.count

\* C36 witness: three calls went to one edge, the last with a signal outside
\* the documented ranges and without a date; the edge counts 3, weighs
\* 4 + 5 + 5 and lists three dates.
C36_Witness ==
  /\ recorded.calls = 3
  /\ recorded.call.emotion.sentiment_score = 150
  /\ recorded.call.review_date = None
  /\ DOMAIN AttractionSentimentNet.edges = {<<"p1", "adjective_1">>}
  /\ AttractionSentimentNet.edges[<<"p1", "adjective_1">>].count = 3
  /\ AttractionSentimentNet.edges[<<"p1", "adjective_1">>].weight = 14
  /\ Len(AttractionSentimentNet.edges[<<"p1", "adjective_1">>].review_dates) = 3

\* ---------------------------------------------------------------- C37
\* The nodes of type 'attraction' of graph g.
AttractionNodes(g) == {n \in DOMAIN g.nodes : g.nodes[n].type = "attraction"}

\* C37: after any sequence of add_edge calls both ends of every edge are
\* nodes of the graph, exactly one of them of type 'attraction', and every
\* node is an end of at least one edge.
C37_Bipartite ==
  LET g == AttractionSentimentNet
  IN  /\ \A k \in DOMAIN g.edges :
             /\ {k[1], k[2]} \subseteq DOMAIN g.nodes
             /\ Cardinality({k[1], k[2]} \cap AttractionNodes(g)) = 1
             /\ Cardinality({k[1], k[2]} \ AttractionNodes(g)) = 1
      /\ \A n \in DOMAIN g.nodes :
             \E k \in DOMAIN g.edges : n \in {k[1], k[2]}

\* C37 witness: three calls made two attraction nodes and two emotion nodes,
\* of type noun and adjective, joined by three edges.
C37_Witness ==
  /\ recorded.calls = 3
  /\ AttractionNodes(AttractionSentimentNet) = {"p1", "q1"}
  /\ DOMAIN AttractionSentimentNet.nodes = {"p1", "q1", "noun_1", "adjective_2"}
  /\ Cardinality(DOMAIN AttractionSentimentNet.edges) = 3

\* ---------------------------------------------------------------- C38
\* How often adjective name occurs in the reviews of attraction aid.
Occurrences(aid, name) ==
  LET rs == scrape_google_maps(aid)
  IN  Cardinality({<<r, o>> \in (1..Len(rs)) \X (1..2) :
                     /\ o <= Len(Observations(rs[r].sentences))
                     /\ Lower(Observations(rs[r].sentences)[o].adjective) = name})

\* C38: in the first process, which starts from an empty graph, no edge of
\* an attraction counts more observations than the reviews of the attraction
\* hold for its emotion, also when the lookup returns the attraction for two
\* cities: its reviews are applied to the graph once.
C38_SharedAttractionAppliedOnce ==
  (runs = 1 /\ resets = 0) =>
    \A k \in DOMAIN AttractionSentimentNet.edges :
       AttractionSentimentNet.edges[k].count <=
         Occurrences(k[1], AttractionSentimentNet.nodes[k[2]].name)

\* ---------------------------------------------------------------- C39
\* C39: the classifier is a cache keyed by the trimmed lowercase adjective.
\* The model is called only for a key that is not in the cache; the cache
\* changes only when the model replied, by the one entry of the key, and a
\* call that raised leaves it as it was; and a call answered from the cache
\* returns what the call that stored the entry returned.
C39_ClassifierIsCache ==
  /\ [](DOMAIN adjective_to_sentiment_map \subseteq
          {Sanitized(a) : a \in ClassifiedAdjectives})
  /\ [][/\ classify'.llm_calls # classify.llm_calls =>
              Sanitized(classify'.adjective) \notin DOMAIN adjective_to_sentiment_map
        /\ adjective_to_sentiment_map' # adjective_to_sentiment_map =>
              /\ classify'.result \notin {"raised", "none"}
              /\ ~classify'.hit
              /\ DOMAIN adjective_to_sentiment_map' =
                   DOMAIN adjective_to_sentiment_map \cup {Sanitized(classify.adjective)}
              /\ \A k \in DOMAIN adjective_to_sentiment_map :
                   adjective_to_sentiment_map'[k] = adjective_to_sentiment_map[k]
        /\ (classify'.calls # classify.calls /\ classify'.hit) =>
              /\ classify'.llm_calls = classify.llm_calls
              /\ classify'.result = classify.first[Sanitized(classify'.adjective)]]_vars

====
